---- MODULE Spec2Model ----
(***************************************************************************)
(* rust-mappedheap: a page allocator over a growing memory mapped file     *)
(* (MappedHeap, src/src/lib.rs) and the B+tree built on such a mapping     *)
(* (MappedBTree, src/src/btree/mod.rs with src/src/btree/node.rs).         *)
(*                                                                         *)
(* A page is kept as the typed view it was last written through:           *)
(*   kind "freelist"  FreelistPage: content = entries[0..n_entries), next  *)
(*   kind "leaf"      LeafNode:  keys[0..count), content = data[0..count)  *)
(*   kind "inner"     InnerNode: keys[0..count), content = children[0..=c] *)
(*   kind "garbage"   bytes the program does not determine                 *)
(* The same bytes are read through the other view by AsNode and            *)
(* AsFreelist.  n_entries is the u64 at offset 0 of a FreelistPage; a      *)
(* BTreePage (4 byte lock word, u16 tag with Leaf = 0, packed node with    *)
(* u16 count first) covers those 8 bytes with lock word, tag and count.    *)
(* So a free-list page without entries, and a zero page, read as an empty  *)
(* leaf and the other way round; the last 8 bytes are next in both views.  *)
(* A free-list page with entries reads as a node whose lock word is        *)
(* n_entries, a lock that no guard will release: a call that locks it does *)
(* not come back, which the model records like a panic of the call.        *)
(* Arrays keep only their live prefix; indices are 0-based as in the       *)
(* source and every bounds-checked index expression of the source is       *)
(* checked against the array length (MAX keys, MAX + 1 children).          *)
(* Option<T> is a sequence: None == <<>>, Some(v) == <<v>>.                *)
(***************************************************************************)
EXTENDS Integers, Sequences, FiniteSets, TLC

VARIABLES header, pages, fragments, allocated, last, panicked, pageLog, fresh,
          present, nfrees, threads

vars == <<header, pages, fragments, allocated, last, panicked, pageLog, fresh,
          present, nfrees, threads>>

(* ------------------------------ constants ------------------------------ *)

PAGESZ == 4096

NULL_PAGE == 0

ROOT_PAGE == 1

\* entries per free-list page; (PAGESZ / 8) - 2 = 510 in the source, scaled down
FREELIST_E_PER_PAGE == 2

\* Node::half_full is count == 127 and Node::full is count == 255 = 2 * 127 + 1
\* in the source; the pair is scaled down keeping MAX = 2 * HALF + 1, HALF > 1.
HALF == 2

MAX == 2 * HALF + 1

\* header.size is not doubled beyond this many pages in SpecHeap
MaxSize == 8

\* HeapFree is not taken more often than this in SpecHeap
MaxFrees == 4

\* the tree operations do not grow header.size beyond this
TreeMaxSize == 16

\* keys of Spec are 1..NKeys
NKeys == 7

\* SpecDeep inserts the keys DeepFirst..DeepKeys in ascending order, then the
\* keys below DeepFirst in descending order (a root of MAX separators over
\* MAX + 1 leaves, the free list used up), and then removes keys of
\* DeepRemoved
DeepKeys == 16

DeepFirst == 5

DeepRemoved == {6, 7, 9, 13, 15, 16}

\* SpecReuse inserts the keys ReuseStride * (1..DeepKeys) in the order of
\* SpecDeep, removes keys of ReuseRemoved and inserts keys of ReuseLate
ReuseStride == 2

ReuseRemoved == {12, 14}

ReuseLate == {9, 11, 13, 15}

\* keys of SpecGrow are 1..GrowKeys
GrowKeys == 20

\* the value stored with key k is ValBase + k (tests of src/src/btree.rs)
ValBase == 1337

\* page number at which the first mapping starts, and the distance in pages
\* between the places the kernel may choose for a mapping it does not grant
\* at the requested address
MapBasePage == 16

MapStride == 64

(* ------------------------------- helpers ------------------------------- *)

None == <<>>

Some(v) == <<v>>

\* what reading bytes the program does not determine yields
UndefRead == <<-1>>

Min(a, b) == IF a < b THEN a ELSE b

\* seq[a..b] and seq[i] of the source (0-based, b exclusive)
Slice(seq, a, b) == SubSeq(seq, a + 1, b)

At(seq, i) == seq[i + 1]

SetAt(seq, i, v) == [seq EXCEPT ![i + 1] = v]

InsertAt(seq, i, v) == Slice(seq, 0, i) \o <<v>> \o Slice(seq, i, Len(seq))

RemoveAt(seq, i) == Slice(seq, 0, i) \o Slice(seq, i + 1, Len(seq))

Range(seq) == {seq[i] : i \in 1..Len(seq)}

(* ------------------------------- pages --------------------------------- *)

FreelistPage(entries, next) ==
  [kind |-> "freelist", keys |-> <<>>, content |-> entries, next |-> next]

LeafNode(keys, data, next) ==
  [kind |-> "leaf", keys |-> keys, content |-> data, next |-> next]

InnerNode(keys, children) ==
  [kind |-> "inner", keys |-> keys, content |-> children, next |-> NULL_PAGE]

\* a page of zero bytes: what extending the file and punching a hole leave
ZeroPage == FreelistPage(<<>>, NULL_PAGE)

GarbagePage == [kind |-> "garbage", keys |-> <<>>, content |-> <<>>, next |-> NULL_PAGE]

\* the page read as FreelistPage; huge says that n_entries, read from the
\* bytes of a node's tag and count, is far beyond entries.len()
AsFreelist(pg) ==
  IF pg.kind = "freelist"
  THEN [huge |-> FALSE, entries |-> pg.content, next |-> pg.next]
  ELSE IF pg.kind = "leaf" /\ pg.keys = <<>>
  THEN [huge |-> FALSE, entries |-> <<>>, next |-> pg.next]
  ELSE [huge |-> TRUE, entries |-> <<>>, next |-> pg.next]

\* the page read as BTreePage (BTreePageInner behind its lock)
AsNode(pg) ==
  IF pg.kind = "freelist"
  THEN IF pg.content = <<>> THEN LeafNode(<<>>, <<>>, pg.next) ELSE GarbagePage
  ELSE pg

\* MappedHeap::page's validity test: Some page exists for id
PageExists(h, id) == id # NULL_PAGE /\ id < h.size

(* ------------------------------- MappedHeap ---------------------------- *)

\* the heap as the allocator sees it: header.size, header.freelist_id and the
\* page contents; panic is set when an assertion or unwrap of the code fails;
\* allocated is a history variable: the ids handed out and not yet freed
Heap(size, freelist_id, pgs, owned) ==
  [size |-> size, freelist_id |-> freelist_id, pages |-> pgs, panic |-> FALSE,
   allocated |-> owned]

\* fault: a new chain page is not linked to the one built before it
RECURSIVE ChainNewPagesUnlinked(_, _, _, _)
ChainNewPagesUnlinked(pgs, freelist_id, first_free, last_free) ==
  IF first_free = last_free
  THEN [pages |-> pgs, freelist_id |-> freelist_id]
  ELSE LET pid == last_free - 1
           n_entries == Min(pid - first_free, FREELIST_E_PER_PAGE)
           page == FreelistPage([i \in 1..n_entries |-> (i - 1) + first_free],
                                NULL_PAGE)
       IN ChainNewPagesUnlinked([pgs EXCEPT ![pid] = page], pid,
                                first_free + n_entries, pid)

\* the loop of alloc's slow path: chain the new pages first_free..last_free-1
RECURSIVE ChainNewPages(_, _, _, _)
ChainNewPages(pgs, freelist_id, first_free, last_free) ==
  IF first_free = last_free
  THEN [pages |-> pgs, freelist_id |-> freelist_id]
  ELSE LET pid == last_free - 1
           n_entries == Min(pid - first_free, FREELIST_E_PER_PAGE)
           page == FreelistPage([i \in 1..n_entries |-> (i - 1) + first_free],
                                freelist_id)
       IN ChainNewPages([pgs EXCEPT ![pid] = page], pid,
                        first_free + n_entries, pid)

\* fault: the file grows by a fixed two pages
DoubleFileByTwo(h) ==
  [h EXCEPT !.size = h.size + 2,
            !.pages = [i \in 1..(h.size + 1) |->
                         IF i < h.size THEN h.pages[i] ELSE ZeroPage]]

\* double_file: header.size *= 2; the file grows by zero pages
DoubleFile(h) ==
  [h EXCEPT !.size = h.size * 2,
            !.pages = [i \in 1..(h.size * 2 - 1) |->
                         IF i < h.size THEN h.pages[i] ELSE ZeroPage]]

\* fault: the first new page after the returned one is not chained
AllocSlowSkipsOne(h) ==
  LET ret == h.size
      d == DoubleFile(h)
      c == ChainNewPages(d.pages, d.freelist_id, ret + 2, d.size)
  IN [heap |-> [d EXCEPT !.pages = c.pages, !.freelist_id = c.freelist_id],
      ret |-> ret]

\* alloc's slow path: the old size is the page returned, the pages after it
\* are chained as free
AllocSlow(h) ==
  LET ret == h.size
      d == DoubleFile(h)
      c == ChainNewPages(d.pages, d.freelist_id, ret + 1, d.size)
  IN [heap |-> [d EXCEPT !.pages = c.pages, !.freelist_id = c.freelist_id],
      ret |-> ret]

\* fault: the popped entry stays on the head page
AllocFastKeepsEntry(h) ==
  LET id == h.freelist_id
      freelist == AsFreelist(h.pages[id])
      n == Len(freelist.entries)
  IN IF n = 0
     THEN [heap |-> [h EXCEPT !.freelist_id = freelist.next], ret |-> id]
     ELSE [heap |-> h, ret |-> At(freelist.entries, n - 1)]

\* alloc's fast path: pop the head page's last entry, or the head page itself
AllocFast(h) ==
  LET id == h.freelist_id
      freelist == IF PageExists(h, id) THEN AsFreelist(h.pages[id])
                  ELSE AsFreelist(GarbagePage)
      n == Len(freelist.entries)
  IN IF ~PageExists(h, id)
     THEN [heap |-> [h EXCEPT !.panic = TRUE], ret |-> NULL_PAGE]
     ELSE IF freelist.huge
     THEN \* n_entries -= 1, then entries[n_entries] is out of bounds
          [heap |-> [h EXCEPT !.panic = TRUE, !.pages[id] = GarbagePage],
           ret |-> NULL_PAGE]
     ELSE IF n = 0
     THEN [heap |-> [h EXCEPT !.freelist_id = freelist.next], ret |-> id]
     ELSE [heap |-> [h EXCEPT !.pages[id] =
                       FreelistPage(Slice(freelist.entries, 0, n - 1), freelist.next)],
           ret |-> At(freelist.entries, n - 1)]

\* fault: the file is also extended when the head page has no entries
AllocExtendsEarly(h) ==
  IF h.freelist_id = NULL_PAGE \/ AsFreelist(h.pages[h.freelist_id]).entries = <<>>
  THEN AllocSlow(h) ELSE AllocFast(h)

\* MappedHeap::alloc on the header and the page contents
Alloc(h) ==
  IF h.freelist_id = NULL_PAGE THEN AllocSlow(h) ELSE AllocFast(h)

\* alloc as its callers see it, with the history variable kept
AllocTracked(h) ==
  LET a == Alloc(h) IN [a EXCEPT !.heap.allocated = @ \cup {a.ret}]

\* fault: the freed id goes in front of the head page's entries
FreePrepends(h, id, cleared) ==
  IF id = NULL_PAGE \/ ~(id < h.size)
  THEN [h EXCEPT !.panic = TRUE]
  ELSE LET freelist == IF h.freelist_id # NULL_PAGE
                       THEN AsFreelist(h.pages[h.freelist_id])
                       ELSE AsFreelist(GarbagePage)
       IN IF h.freelist_id # NULL_PAGE /\ Len(freelist.entries) < FREELIST_E_PER_PAGE
          THEN [h EXCEPT !.pages[h.freelist_id] =
                  FreelistPage(<<id>> \o freelist.entries, freelist.next)]
          ELSE [h EXCEPT !.pages[id] = FreelistPage(<<>>, h.freelist_id),
                         !.freelist_id = id]

\* MappedHeap::free on the header and the page contents; cleared says whether
\* clear_page (madvise MADV_REMOVE on Linux, nothing elsewhere) zeroed the page
Free(h, id, cleared) ==
  IF id = NULL_PAGE \/ ~(id < h.size)
  THEN [h EXCEPT !.panic = TRUE]
  ELSE IF h.freelist_id # NULL_PAGE /\ ~PageExists(h, h.freelist_id)
  THEN [h EXCEPT !.panic = TRUE]
  ELSE LET freelist == IF h.freelist_id # NULL_PAGE
                       THEN AsFreelist(h.pages[h.freelist_id])
                       ELSE AsFreelist(GarbagePage)
       IN IF /\ h.freelist_id # NULL_PAGE
             /\ ~freelist.huge
             /\ Len(freelist.entries) < FREELIST_E_PER_PAGE
          THEN LET appended == [h EXCEPT !.pages[h.freelist_id] =
                                  FreelistPage(Append(freelist.entries, id),
                                               freelist.next)]
               IN IF cleared THEN [appended EXCEPT !.pages[id] = ZeroPage]
                  ELSE appended
          ELSE [h EXCEPT !.pages[id] = FreelistPage(<<>>, h.freelist_id),
                         !.freelist_id = id]

\* free as its callers see it, with the history variable kept
FreeTracked(h, id, cleared) ==
  [Free(h, id, cleared) EXCEPT !.allocated = @ \ {id}]

(* ------------------------- mapping fragments --------------------------- *)

Fragment(addr, offset, size) == [addr |-> addr, offset |-> offset, size |-> size]

\* sum of x.size over the fragments
RECURSIVE MapSize(_)
MapSize(frags) ==
  IF frags = <<>> THEN 0 ELSE frags[1].size + MapSize(Tail(frags))

\* where the kernel puts a mapping it does not grant at the requested address
ElsewhereAddr(frags) == (MapBasePage + MapStride * Len(frags)) * PAGESZ

\* fault: a new fragment's offset leaves out the offset of the one before
GrowOffsetFromSize(self, additional, addr) ==
  LET addr_desired == self.addr + self.size * PAGESZ
  IN IF addr = addr_desired
     THEN [self |-> [self EXCEPT !.size = self.size + additional], new |-> None]
     ELSE [self |-> self, new |-> Some(Fragment(addr, self.size, additional))]

\* fault: the fragment is moved to where the kernel put the extension
GrowMovesSelf(self, additional, addr) ==
  [self |-> [self EXCEPT !.addr = addr - self.size * PAGESZ,
                         !.size = self.size + additional],
   new |-> None]

\* Fragment::grow: None when the mapping was extended in place (size grows),
\* Some(new fragment) when the kernel answered with another address
Grow(self, additional, addr) ==
  LET addr_desired == self.addr + self.size * PAGESZ
  IN IF addr = addr_desired
     THEN [self |-> [self EXCEPT !.size = self.size + additional], new |-> None]
     ELSE [self |-> self,
           new |-> Some(Fragment(addr, self.offset + self.size, additional))]

\* fragments.binary_search_by_key(&id, |x| x.offset) with Ok(i) => i,
\* Err(i) => i - 1: the last fragment that starts at or before id
FragIndex(frags, id) ==
  IF \E i \in 1..Len(frags) : frags[i].offset = id
  THEN (CHOOSE i \in 1..Len(frags) : frags[i].offset = id) - 1
  ELSE Cardinality({i \in 1..Len(frags) : frags[i].offset < id}) - 1

\* fault: the fragment's offset is not subtracted
PageAddrNoOffset(fragment, id) == fragment.addr + id * PAGESZ

\* the address MappedHeap::page computes inside the fragment it selected
PageAddr(fragment, id) == fragment.addr + (id - fragment.offset) * PAGESZ

\* MappedHeap::page(id) with header.size = hsize; inplace says whether the
\* kernel grants a needed extension at the requested address
Page(frags, hsize, id, inplace) ==
  IF id = NULL_PAGE \/ id >= hsize
  THEN [fragments |-> frags, res |-> None, grew |-> "no", panic |-> FALSE]
  ELSE
    LET index == FragIndex(frags, id)
    IN IF index < 0 \/ index >= Len(frags)
       THEN [fragments |-> frags, res |-> None, grew |-> "no", panic |-> TRUE]
       ELSE
         LET covered == id - At(frags, index).offset < At(frags, index).size
             required == hsize - MapSize(frags)
             lastf == frags[Len(frags)]
             addr == IF inplace THEN lastf.addr + lastf.size * PAGESZ
                     ELSE ElsewhereAddr(frags)
             g == Grow(lastf, required, addr)
             frags2 == IF covered THEN frags
                       ELSE IF g.new = None
                       THEN [frags EXCEPT ![Len(frags)] = g.self]
                       ELSE Append(frags, g.new[1])
             index2 == IF ~covered /\ g.new # None THEN index + 1 ELSE index
             grew == IF covered THEN "no"
                     ELSE IF g.new = None THEN "inplace" ELSE "append"
         IN IF (~covered /\ ~(required > 0)) \/ index2 >= Len(frags2)
            THEN [fragments |-> frags, res |-> None, grew |-> "no", panic |-> TRUE]
            ELSE LET fragment == At(frags2, index2)
                 IN IF ~(id - fragment.offset < fragment.size)
                    THEN [fragments |-> frags2, res |-> None, grew |-> grew,
                          panic |-> TRUE]
                    ELSE [fragments |-> frags2,
                          res |-> Some(PageAddr(fragment, id)),
                          grew |-> grew, panic |-> FALSE]

\* the page() calls one heap operation makes, in order; the log keeps
\* id, result and whether the call extended the mapping
RECURSIVE PageCalls(_, _, _, _, _)
PageCalls(frags, hsize, ids, inplace, log) ==
  IF ids = <<>>
  THEN [fragments |-> frags, log |-> log, panic |-> FALSE]
  ELSE LET p == Page(frags, hsize, Head(ids), inplace)
           entry == [id |-> Head(ids), res |-> p.res, grew |-> p.grew]
       IN IF p.panic
          THEN [fragments |-> p.fragments, log |-> Append(log, entry), panic |-> TRUE]
          ELSE PageCalls(p.fragments, hsize, Tail(ids), inplace, Append(log, entry))

\* the ids alloc's slow path passes to page_mut, in order
RECURSIVE ChainPids(_, _)
ChainPids(first_free, last_free) ==
  IF first_free = last_free THEN <<>>
  ELSE LET pid == last_free - 1
       IN <<pid>> \o ChainPids(first_free + Min(pid - first_free, FREELIST_E_PER_PAGE),
                               pid)

(* ------------------------------ heap actions --------------------------- *)

H == Heap(header.size, header.freelist_id, pages, allocated)

Header(h) == [size |-> h.size, freelist_id |-> h.freelist_id]

Op(op, arg, val, ret) == [op |-> op, arg |-> arg, val |-> val, ret |-> ret]

\* MappedHeap::initialize followed by open_file: header page and one zero
\* page, which is the empty free-list page 1; one fragment maps both
InitHeap ==
  /\ header = [size |-> 2, freelist_id |-> 1]
  /\ pages = [i \in 1..1 |-> FreelistPage(<<>>, NULL_PAGE)]
  /\ fragments = <<Fragment(MapBasePage * PAGESZ, 0, 2)>>
  /\ allocated = {}
  /\ last = Op("init", 0, 0, None)
  /\ panicked = ""
  /\ pageLog = <<>>
  /\ fresh = 0
  /\ present = {}
  /\ nfrees = 0
  /\ threads = <<>>

\* pub fn alloc(&self) -> PageId, the file not growing beyond limit pages
HeapAllocUpTo(limit) ==
  /\ panicked = ""
  /\ header.freelist_id # NULL_PAGE \/ header.size * 2 <= limit
  /\ \E inplace \in BOOLEAN :
       LET r == AllocTracked(H)
           ids == IF header.freelist_id = NULL_PAGE
                  THEN ChainPids(header.size + 1, header.size * 2)
                  ELSE <<header.freelist_id>>
           pc == PageCalls(fragments, r.heap.size, ids, inplace, <<>>)
       IN /\ header' = Header(r.heap)
          /\ pages' = r.heap.pages
          /\ fragments' = pc.fragments
          /\ pageLog' = pc.log
          /\ allocated' = r.heap.allocated
          /\ last' = Op("alloc", 0, 0, Some(r.ret))
          /\ panicked' = IF r.heap.panic \/ pc.panic THEN "alloc" ELSE ""
          /\ fresh' = IF fresh >= 0 /\ fresh < 3 THEN fresh + 1 ELSE -1
          /\ UNCHANGED <<present, nfrees, threads>>

HeapAlloc == HeapAllocUpTo(MaxSize)

\* pub fn free(&self, id: PageId), for an id the caller holds
HeapFree ==
  /\ panicked = ""
  /\ nfrees < MaxFrees
  /\ \E id \in allocated, cleared \in BOOLEAN :
       LET h == FreeTracked(H, id, cleared)
           ids == (IF header.freelist_id # NULL_PAGE
                   THEN <<header.freelist_id>> ELSE <<>>) \o <<id>>
           pc == PageCalls(fragments, header.size, ids, TRUE, <<>>)
       IN /\ header' = Header(h)
          /\ pages' = h.pages
          /\ fragments' = pc.fragments
          /\ pageLog' = pc.log
          /\ allocated' = h.allocated
          /\ last' = Op("free", id, 0, None)
          /\ panicked' = IF h.panic \/ pc.panic THEN "free" ELSE ""
          /\ fresh' = -1
          /\ nfrees' = nfrees + 1
          /\ UNCHANGED <<present, threads>>

\* pub fn page(&self, id: PageId) -> Option<*mut [u8; PAGESZ]>
HeapPage ==
  /\ panicked = ""
  /\ \E id \in 0..(MaxSize + 1), inplace \in BOOLEAN :
       LET p == Page(fragments, header.size, id, inplace)
       IN /\ fragments' = p.fragments
          /\ pageLog' = <<[id |-> id, res |-> p.res, grew |-> p.grew]>>
          /\ last' = Op("page", id, 0, p.res)
          /\ panicked' = IF p.panic THEN "page" ELSE ""
          /\ UNCHANGED <<header, pages, allocated, fresh, present, nfrees, threads>>

NextHeap == HeapAlloc \/ HeapFree

SpecHeap == InitHeap /\ [][NextHeap]_vars

NextPage == HeapAlloc \/ HeapPage

SpecPage == InitHeap /\ [][NextPage]_vars


(* ------------------------------ btree nodes ---------------------------- *)

\* the outcome of a node operation: the node (and what the operation returns)
\* or the panic that ended it
Ok(node, ret) == [panic |-> "", node |-> node, ret |-> ret]

Panic(why) == [panic |-> why, node |-> GarbagePage, ret |-> None]

Count(n) == Len(n.keys)

\* Node::half_full and Node::full
HalfFull(n) == Count(n) = HALF

Full(n) == Count(n) = MAX

\* the predicates insert and remove hand to wlock_subtree
NotFull == "|x| !x.full()"

NotHalfFull == "|x| !x.half_full()"

\* pred(&x) for one of these closures
Pred(pred, n) == IF pred = NotFull THEN ~Full(n) ELSE ~HalfFull(n)

\* slice::binary_search on ascending keys: Ok(i) with keys[i] = key, or
\* Err(i) with i the number of keys below key
BinarySearch(keys, key) ==
  IF \E i \in 1..Len(keys) : keys[i] = key
  THEN [ok |-> TRUE, i |-> (CHOOSE i \in 1..Len(keys) : keys[i] = key) - 1]
  ELSE [ok |-> FALSE, i |-> Cardinality({i \in 1..Len(keys) : keys[i] < key})]

\* Node::find_slot (the default, used by LeafNode)
LeafFindSlot(keys, key) == BinarySearch(keys, key).i

\* InnerNode::find_slot: Ok(i) => i + 1, Err(i) => i
InnerFindSlot(keys, key) ==
  LET r == BinarySearch(keys, key) IN IF r.ok THEN r.i + 1 ELSE r.i

\* InnerNode::traverse
InnerTraverse(n, key) == At(n.content, InnerFindSlot(n.keys, key))

\* LeafNode::get
LeafGet(l, key) ==
  LET r == BinarySearch(l.keys, key)
  IN IF r.ok THEN Some(At(l.content, r.i)) ELSE None

\* LeafNode::insert_idx
LeafInsertIdx(l, i, key, val) ==
  IF Full(l) THEN Panic("assert !full")
  ELSE IF ~(i < MAX) \/ i > Count(l) THEN Panic("index out of bounds")
  ELSE Ok(LeafNode(InsertAt(l.keys, i, key), InsertAt(l.content, i, val), l.next),
          None)

\* Node::insert for a leaf
LeafInsert(l, key, val) == LeafInsertIdx(l, LeafFindSlot(l.keys, key), key, val)

\* InnerNode::insert_idx: &mut self.keys[i + 1] and &mut self.children[i + 2]
\* index arrays of MAX and MAX + 1 elements
InnerInsertIdx(n, i, key, newpage) ==
  IF Full(n) THEN Panic("assert !full")
  ELSE IF ~(i + 1 < MAX) \/ ~(i + 2 < MAX + 1) \/ i > Count(n)
  THEN Panic("index out of bounds")
  ELSE Ok(InnerNode(InsertAt(n.keys, i, key), InsertAt(n.content, i + 1, newpage)),
          None)

\* Node::insert for an inner node
InnerInsert(n, key, newpage) ==
  InnerInsertIdx(n, InnerFindSlot(n.keys, key), key, newpage)

\* LeafNode::remove_idx: &self.keys[i + 1] indexes an array of MAX elements
LeafRemoveIdx(l, i) ==
  IF ~(i + 1 < MAX) \/ ~(i < Count(l)) THEN Panic("index out of bounds")
  ELSE [panic |-> "",
        node |-> LeafNode(RemoveAt(l.keys, i), RemoveAt(l.content, i), l.next),
        ret |-> <<At(l.keys, i), At(l.content, i)>>]

\* Node::remove for a leaf: Some(value) or None
LeafRemove(l, key) ==
  LET i == LeafFindSlot(l.keys, key)
  IN IF ~(i < Count(l)) THEN Panic("index out of bounds")
     ELSE IF At(l.keys, i) = key
     THEN LET r == LeafRemoveIdx(l, i)
          IN IF r.panic # "" THEN r ELSE Ok(r.node, Some(r.ret[2]))
     ELSE Ok(l, None)

\* InnerNode::remove_idx: takes out keys[i - 1] and children[i]
InnerRemoveIdx(n, i) ==
  IF i = 0 THEN Panic("attempt to subtract with overflow")
  ELSE IF ~(i < MAX) \/ ~(i + 1 < MAX + 1) \/ i > Count(n)
  THEN Panic("index out of bounds")
  ELSE [panic |-> "",
        node |-> InnerNode(RemoveAt(n.keys, i - 1), RemoveAt(n.content, i)),
        ret |-> <<At(n.keys, i - 1), At(n.content, i)>>]

\* fault: the next pointers are left as they were
LeafSplitKeepsNext(l, newkey, newval, target_id) ==
  LET count == Count(l)
      remain == count \div 2
      i == LeafFindSlot(l.keys, newkey)
      all == InsertAt(l.keys, i, newkey)
      alld == InsertAt(l.content, i, newval)
      cut == IF i > remain THEN remain ELSE remain + 1
  IN [panic |-> "",
      node |-> LeafNode(Slice(all, 0, cut), Slice(alld, 0, cut), l.next),
      target |-> LeafNode(Slice(all, cut, count + 1), Slice(alld, cut, count + 1), NULL_PAGE),
      ret |-> At(all, cut)]

\* LeafNode::split: self keeps the low part, the returned node is the target;
\* ret is the key handed to the parent (target.keys[0])
LeafSplit(l, newkey, newval, target_id) ==
  LET count == Count(l)
      remain == count \div 2
      i == LeafFindSlot(l.keys, newkey)
      tkeys == IF i > remain
               THEN Slice(l.keys, remain, i) \o <<newkey>> \o Slice(l.keys, i, count)
               ELSE Slice(l.keys, remain, count)
      tdata == IF i > remain
               THEN Slice(l.content, remain, i) \o <<newval>>
                    \o Slice(l.content, i, count)
               ELSE Slice(l.content, remain, count)
      skeys == IF i > remain THEN Slice(l.keys, 0, remain)
               ELSE InsertAt(Slice(l.keys, 0, remain), i, newkey)
      sdata == IF i > remain THEN Slice(l.content, 0, remain)
               ELSE InsertAt(Slice(l.content, 0, remain), i, newval)
  IN [panic |-> "",
      node |-> LeafNode(skeys, sdata, target_id),
      target |-> LeafNode(tkeys, tdata, l.next),
      ret |-> tkeys[1]]

\* InnerNode::split. i = find_slot(newkey) - 1 and assert_eq!(keys[i], newkey)
\* come first; the copy_from_slice calls panic when source and destination
\* differ in length.
InnerSplit(n, newkey, newval) ==
  LET count == Count(n)
      remain == count \div 2
      rest == count - remain
      fs == InnerFindSlot(n.keys, newkey)
      i == fs - 1
      before == i - remain - 1
      after == before + 1
  IN IF fs = 0 THEN Panic("attempt to subtract with overflow")
     ELSE IF At(n.keys, i) # newkey THEN Panic("assert_eq keys[i] newkey")
     ELSE IF i > remain
     THEN \* add to target
          IF (rest + 1) - (after + 1) # (count + 1) - i
          THEN Panic("copy_from_slice length mismatch")
          ELSE [panic |-> "",
                node |-> InnerNode(Slice(n.keys, 0, remain),
                                   Slice(n.content, 0, remain + 1)),
                target |-> InnerNode(
                   Slice(n.keys, remain + 1, i) \o <<newkey>>
                     \o Slice(n.keys, i, count),
                   Slice(n.content, remain, i) \o <<newval>>
                     \o Slice(n.content, i, count + 1)),
                ret |-> At(n.keys, remain)]
     ELSE \* add to self
          IF (rest - 1) + 1 # (count + 1) - remain
          THEN Panic("copy_from_slice length mismatch")
          ELSE [panic |-> "",
                node |-> InnerNode(InsertAt(Slice(n.keys, 0, remain), i, newkey),
                                   InsertAt(Slice(n.content, 0, remain), i, newval)),
                target |-> InnerNode(Slice(n.keys, remain + 1, count),
                                     Slice(n.content, remain, count + 1)),
                ret |-> At(n.keys, remain)]

\* LeafNode::merge: self takes the sibling's entries and its next pointer
LeafMerge(self, sibling, parent_key) ==
  IF ~(Count(self) + Count(sibling) <= MAX) THEN Panic("assert merge fits")
  ELSE IF Count(self) = 0 \/ Count(sibling) = 0 THEN Panic("ub: keys[0] of an empty node")
  ELSE IF ~(self.keys[1] < sibling.keys[1]) THEN Panic("assert merge order")
  ELSE Ok(LeafNode(self.keys \o sibling.keys, self.content \o sibling.content,
                   sibling.next), None)

\* InnerNode::merge: [self, parent_key, sibling]
InnerMerge(self, sibling, parent_key) ==
  IF ~(Count(self) + Count(sibling) + 1 <= MAX) THEN Panic("assert merge fits")
  ELSE IF Count(self) = 0 \/ Count(sibling) = 0 THEN Panic("ub: keys[0] of an empty node")
  ELSE IF ~(self.keys[1] < sibling.keys[1]) THEN Panic("assert merge order")
  ELSE Ok(InnerNode(self.keys \o <<parent_key>> \o sibling.keys,
                    self.content \o sibling.content), None)

\* LeafNode::borrow: one entry moves from the sibling to self and the parent's
\* separator is rewritten; the result carries self, sibling and parent
LeafBorrow(self, parent, parent_slot, sibling, is_right) ==
  IF ~HalfFull(self) THEN Panic("assert self.half_full")
  ELSE IF HalfFull(sibling) THEN Panic("assert !sibling.half_full")
  ELSE
    LET i_del == IF is_right THEN 0 ELSE Count(sibling) - 1
        i_ins == IF is_right THEN Count(self) ELSE 0
        r == LeafRemoveIdx(sibling, i_del)
        pidx == IF is_right THEN parent_slot ELSE parent_slot - 1
        pkey == IF is_right THEN r.node.keys[1] ELSE r.ret[1]
        ins == LeafInsertIdx(self, i_ins, r.ret[1], r.ret[2])
    IN IF r.panic # "" THEN r
       ELSE IF pidx < 0 \/ ~(pidx < Count(parent)) \/ Count(r.node) = 0
       THEN Panic("index out of bounds")
       ELSE IF ins.panic # "" THEN ins
       ELSE [panic |-> "", node |-> ins.node, sibling |-> r.node,
             parent |-> [parent EXCEPT !.keys = SetAt(parent.keys, pidx, pkey)],
             ret |-> None]

\* InnerNode::borrow: the sibling's edge entry and the parent's separator
\* rotate through mem::swap; parent.keys is the whole array, so an index
\* from count on reads a key the program does not determine and the write
\* to it stays outside the live keys
InnerBorrow(self, parent, parent_slot, sibling, is_right) ==
  IF ~HalfFull(self) THEN Panic("assert self.half_full")
  ELSE IF HalfFull(sibling) THEN Panic("assert !sibling.half_full")
  ELSE
    LET i_del == IF is_right THEN 0 ELSE Count(sibling) - 1
        i_ins == IF is_right THEN Count(self) ELSE 0
        r == InnerRemoveIdx(sibling, i_del)
        pidx == IF is_right THEN parent_slot + 1 ELSE parent_slot
        live == pidx < Count(parent)
    IN IF r.panic # "" THEN r
       ELSE IF ~(pidx < MAX) THEN Panic("index out of bounds")
       ELSE
         LET k == IF live THEN At(parent.keys, pidx) ELSE UndefRead[1]
             parent2 == IF live
                        THEN [parent EXCEPT !.keys = SetAt(parent.keys, pidx, r.ret[1])]
                        ELSE parent
             v == IF is_right THEN r.node.content[1] ELSE self.content[1]
             sibling2 == IF is_right
                         THEN [r.node EXCEPT !.content = SetAt(r.node.content, 0, r.ret[2])]
                         ELSE r.node
             self2 == IF is_right THEN self
                      ELSE [self EXCEPT !.content = SetAt(self.content, 0, r.ret[2])]
             ins == InnerInsertIdx(self2, i_ins, k, v)
         IN IF ins.panic # "" THEN ins
            ELSE [panic |-> "", node |-> ins.node, sibling |-> sibling2,
                  parent |-> parent2, ret |-> None]


(* ------------------------------ MappedBTree ---------------------------- *)

\* the outcome of a tree operation on the heap h: the heap it leaves, what it
\* returns, and the panic (or deadlock, or undefined read) that ended it
Done(h, ret) == [heap |-> h, ret |-> ret, panic |-> ""]

Fail(h, why) == [heap |-> h, ret |-> None, panic |-> why]

\* the node a page guard dereferences to
NodeAt(h, id) == AsNode(h.pages[id])

\* the descent of get and of wlock_subtree from current to a leaf:
\* page(current).unwrap(), then traverse while the node is Inner
RECURSIVE Descend(_, _, _, _)
Descend(h, current, key, path) ==
  IF ~PageExists(h, current) THEN [panic |-> "unwrap on None page", path |-> path]
  ELSE IF current \in Range(path) THEN [panic |-> "descent does not end", path |-> path]
  ELSE LET n == NodeAt(h, current)
       IN IF n.kind = "leaf" THEN [panic |-> "", path |-> Append(path, current)]
          ELSE IF n.kind = "inner"
          THEN Descend(h, InnerTraverse(n, key), key, Append(path, current))
          ELSE [panic |-> "page is not a node with a free lock", path |-> path]

\* MappedBTree::get
Get(h, key) ==
  LET d == Descend(h, ROOT_PAGE, key, <<>>)
  IN IF d.panic # "" THEN UndefRead
     ELSE LeafGet(NodeAt(h, d.path[Len(d.path)]), key)

\* iter().rposition(pred) over the pages ids: 1-based position of the last
\* page that satisfies pred, 0 for None
RPosition(h, ids, pred) ==
  LET hits == {i \in 1..Len(ids) : Pred(pred, NodeAt(h, ids[i]))}
  IN IF hits = {} THEN 0 ELSE CHOOSE i \in hits : \A j \in hits : j <= i

\* fault: the write guards that turned out to be unnecessary are kept
WlockDrainKeeps(wpath, actual_first_match, hit_root) ==
  [panic |-> "", wpath |-> wpath,
   hit_root |-> IF actual_first_match # 0 THEN FALSE ELSE hit_root]

\* wlock_subtree after the locks are taken: write guards that turned out
\* to be unnecessary are released (wpath.drain(..actual_first_match))
WlockDrain(wpath, actual_first_match, hit_root) ==
  IF actual_first_match # 0
  THEN [panic |-> "", wpath |-> SubSeq(wpath, actual_first_match, Len(wpath)),
        hit_root |-> FALSE]
  ELSE [panic |-> "", wpath |-> wpath, hit_root |-> hit_root]

\* wlock_subtree from the first match down: wpath is write-locked towards
\* the leaf, then the predicate is checked again
WlockDown(h, wpath, hit_root, pred) ==
  WlockDrain(wpath, RPosition(h, wpath, pred), hit_root)

\* wlock_subtree after the descent: o_first_match is the last page of the
\* read-locked path that satisfies pred; without one the root is taken
WlockUp(h, path, o_first_match, pred) ==
  WlockDown(h, SubSeq(path, IF o_first_match = 0 THEN 1 ELSE o_first_match, Len(path)),
            o_first_match = 0, pred)

WlockPath(h, d, pred) ==
  IF d.panic # "" THEN [panic |-> d.panic, wpath |-> <<>>, hit_root |-> FALSE]
  ELSE WlockUp(h, d.path, RPosition(h, d.path, pred), pred)

\* MappedBTree::wlock_subtree with no other thread running: the write-locked
\* path from the last node on the descent that satisfies pred (from the root
\* if none does) to the leaf, and hit_root
WlockSubtree(h, key, pred) ==
  WlockPath(h, Descend(h, ROOT_PAGE, key, <<>>), pred)

\* MappedBTree::split_into: page is split, the upper part goes to target_id;
\* locked are the pages whose write guards the caller still holds
SplitInto(h, key, val, page_ref, page_id, target_id, locked) ==
  IF ~PageExists(h, target_id) THEN [heap |-> h, key |-> key, panic |-> "unwrap on None page"]
  ELSE IF target_id \in locked THEN [heap |-> h, key |-> key, panic |-> "deadlock"]
  ELSE
    LET n == NodeAt(h, page_id)
        r == IF n.kind = "leaf" THEN LeafSplit(n, key, val, target_id)
             ELSE InnerSplit(n, key, page_ref[1])
    IN IF n.kind \notin {"leaf", "inner"}
       THEN [heap |-> h, key |-> key, panic |-> "page is not a node with a free lock"]
       ELSE IF n.kind = "inner" /\ page_ref = None
       THEN [heap |-> h, key |-> key, panic |-> "unwrap on None"]
       ELSE IF r.panic # "" THEN [heap |-> h, key |-> key, panic |-> r.panic]
       ELSE [heap |-> [h EXCEPT !.pages[page_id] = r.node,
                                !.pages[target_id] = r.target],
             key |-> r.ret, panic |-> ""]

\* the loop "for _ in 0..n { newpages.push(self.mapping.alloc()) }"
RECURSIVE AllocN(_, _, _)
AllocN(h, n, newpages) ==
  IF n = 0 \/ h.panic THEN [heap |-> h, newpages |-> newpages]
  ELSE LET a == AllocTracked(h) IN AllocN(a.heap, n - 1, Append(newpages, a.ret))

\* the loop over wpath.drain(1..).rev().zip(newpages.iter()): olds are the
\* pages below the first of wpath, deepest first; the guards of the olds not
\* yet visited and of the first page of wpath are held
RECURSIVE SplitLoop(_, _, _, _, _, _, _)
SplitLoop(h, olds, news, key, val, page_ref, anchor) ==
  IF olds = <<>> \/ news = <<>>
  THEN [heap |-> h, key |-> key, page_ref |-> page_ref, panic |-> ""]
  ELSE LET r == SplitInto(h, key, val, page_ref, Head(olds), Head(news),
                          Range(olds) \cup {anchor})
       IN IF r.panic # ""
          THEN [heap |-> r.heap, key |-> key, page_ref |-> page_ref, panic |-> r.panic]
          ELSE SplitLoop(r.heap, Tail(olds), Tail(news), r.key, val,
                         Some(Head(news)), anchor)

Reverse(seq) == [i \in 1..Len(seq) |-> seq[Len(seq) + 1 - i]]

\* insert, the root split: the old root moves to newpagel_id, is split into
\* newpager_id, and a new root over the two is written
InsertSplitRootEnd(r, anchor, newpagel_id, newpager_id) ==
  IF r.panic # "" THEN Fail(r.heap, r.panic)
  ELSE Done([r.heap EXCEPT !.pages[anchor] =
               InnerInsert(InnerNode(<<>>, <<newpagel_id>>), r.key, newpager_id).node],
            None)

InsertSplitRoot(h2, sl, val, anchor, newpagel_id, newpager_id, keeps) ==
  IF ~PageExists(h2, newpagel_id) THEN Fail(h2, "unwrap on None page")
  ELSE IF newpagel_id = anchor THEN Fail(h2, "deadlock")
  ELSE InsertSplitRootEnd(
         SplitInto([h2 EXCEPT !.pages[newpagel_id] = NodeAt(h2, anchor),
                              !.pages[anchor] = IF keeps THEN @ ELSE GarbagePage],
                   sl.key, val, sl.page_ref, newpagel_id, newpager_id,
                   {anchor, newpagel_id}),
         anchor, newpagel_id, newpager_id)

\* insert, no root split: the entry is registered in the first page of wpath
InsertRegister(h2, r, anchor) ==
  IF r.panic # "" THEN Fail(h2, r.panic)
  ELSE Done([h2 EXCEPT !.pages[anchor] = r.node], None)

\* insert after the split loop
InsertFinish(sl, newpages, val, anchor, split_root, keeps) ==
  IF sl.panic # "" THEN Fail(sl.heap, sl.panic)
  ELSE IF split_root
  THEN InsertSplitRoot(sl.heap, sl, val, anchor, newpages[Len(newpages)],
                       newpages[Len(newpages) - 1], keeps)
  ELSE IF NodeAt(sl.heap, anchor).kind = "inner"
  THEN IF sl.page_ref = None THEN Fail(sl.heap, "unwrap on None")
       ELSE InsertRegister(sl.heap,
                           InnerInsert(NodeAt(sl.heap, anchor), sl.key, sl.page_ref[1]),
                           anchor)
  ELSE InsertRegister(sl.heap, LeafInsert(NodeAt(sl.heap, anchor), sl.key, val), anchor)

\* insert after the new pages are allocated
InsertSplit(al, wpath, key, val, split_root, keeps) ==
  IF al.heap.panic THEN Fail(al.heap, "alloc panics")
  ELSE InsertFinish(SplitLoop(al.heap, Reverse(Tail(wpath)), al.newpages, key, val,
                              None, wpath[1]),
                    al.newpages, val, wpath[1], split_root, keeps)

\* insert after wlock_subtree
InsertLocked(h, w, key, val, keeps) ==
  IF w.panic # "" THEN Fail(h, w.panic)
  ELSE InsertSplit(AllocN(h, Len(w.wpath) - 1 + (IF w.hit_root THEN 2 ELSE 0), <<>>),
                   w.wpath, key, val, w.hit_root, keeps)

\* MappedBTree::insert; keeps says whether the root page still holds its old
\* bytes after mem::replace(&mut *page, mem::uninitialized())
TreeInsert(h, key, val, keeps) ==
  InsertLocked(h, WlockSubtree(h, key, NotFull), key, val, keeps)

\* the sibling choice of remove: the left sibling, unless it is missing or
\* half full and a right sibling exists; locked are the pages whose write
\* guards are held
ChooseSibling(h, parent, slot, locked) ==
  LET hasl == slot >= 1 /\ slot - 1 < Len(parent.content)
      siblingl == At(parent.content, slot - 1)
      hasr == slot + 1 < Len(parent.content)
      siblingr == At(parent.content, slot + 1)
      none == [panic |-> "", id |-> NULL_PAGE, is_right |-> FALSE]
  IN IF hasl /\ ~PageExists(h, siblingl) THEN [none EXCEPT !.panic = "unwrap on None page"]
     ELSE IF hasl /\ siblingl \in locked THEN [none EXCEPT !.panic = "deadlock"]
     ELSE IF hasl /\ NodeAt(h, siblingl).kind \notin {"leaf", "inner"}
     THEN [none EXCEPT !.panic = "page is not a node with a free lock"]
     ELSE IF hasl /\ ~HalfFull(NodeAt(h, siblingl))
     THEN [none EXCEPT !.id = siblingl]
     ELSE IF ~hasr
     THEN IF hasl THEN [none EXCEPT !.id = siblingl]
          ELSE [none EXCEPT !.panic = "unreachable: no sibling"]
     ELSE IF ~PageExists(h, siblingr) THEN [none EXCEPT !.panic = "unwrap on None page"]
     ELSE IF siblingr \in locked \cup (IF hasl THEN {siblingl} ELSE {})
     THEN [none EXCEPT !.panic = "deadlock"]
     ELSE IF NodeAt(h, siblingr).kind \notin {"leaf", "inner"}
     THEN [none EXCEPT !.panic = "page is not a node with a free lock"]
     ELSE [none EXCEPT !.id = siblingr, !.is_right = TRUE]

\* the first statement of the borrow, merge and easy arms of remove:
\* p.remove_idx(last_parent_slot.unwrap()) for an inner node, p.remove(key)
\* for a leaf
NodeRemove(p, key, last_parent_slot) ==
  IF p.kind = "inner"
  THEN IF last_parent_slot = None THEN Panic("unwrap on None")
       ELSE InnerRemoveIdx(p, last_parent_slot[1])
  ELSE LeafRemove(p, key)

\* ret after that statement: only the leaf arm assigns it
RetAfter(p, rm, ret) == IF p.kind = "inner" THEN ret ELSE rm.ret

NodeBorrow(self, parent, parent_slot, sibling, is_right) ==
  IF self.kind = "inner" THEN InnerBorrow(self, parent, parent_slot, sibling, is_right)
  ELSE LeafBorrow(self, parent, parent_slot, sibling, is_right)

NodeMerge(self, sibling, parent_key) ==
  IF self.kind = "inner" THEN InnerMerge(self, sibling, parent_key)
  ELSE LeafMerge(self, sibling, parent_key)

\* the borrow arm of remove after p.borrow(...): assert!(ret.is_some())
RemoveBorrowEnd(h, h1, b, page_id, parent_id, sibling_id, ret) ==
  LET hb == [h EXCEPT !.pages[page_id] = b.node, !.pages[sibling_id] = b.sibling,
                      !.pages[parent_id] = b.parent]
  IN IF b.panic # "" THEN Fail(h1, b.panic)
     ELSE IF ret = None THEN Fail(hb, "assert ret.is_some")
     ELSE Done(hb, ret)

\* the borrow arm of remove after the entry has left p
RemoveBorrowRemoved(h, rm, page_id, parent_id, slot, sibling_id, is_right, ret) ==
  IF rm.panic # "" THEN Fail(h, rm.panic)
  ELSE RemoveBorrowEnd(h, [h EXCEPT !.pages[page_id] = rm.node],
                       NodeBorrow(rm.node, NodeAt(h, parent_id), slot,
                                  NodeAt(h, sibling_id), is_right),
                       page_id, parent_id, sibling_id,
                       RetAfter(NodeAt(h, page_id), rm, ret))

\* the borrow arm of remove: the entry leaves p, then p.borrow(...)
RemoveBorrow(h, key, page_id, parent_id, slot, sibling_id, is_right, last_parent_slot, ret) ==
  IF NodeAt(h, page_id).kind # NodeAt(h, sibling_id).kind
  THEN Fail(h, "unreachable: node kinds differ")
  ELSE RemoveBorrowRemoved(h, NodeRemove(NodeAt(h, page_id), key, last_parent_slot),
                           page_id, parent_id, slot, sibling_id, is_right, ret)

\* what an arm of remove hands to the next round of the loop
Merged(h, ret) == [heap |-> h, ret |-> ret, panic |-> "", merged |-> TRUE]

\* the merge arm of remove after the free of the emptied page
RemoveMergeFreed(h3, ret) ==
  IF h3.panic THEN Fail(h3, "free panics") ELSE Merged(h3, ret)

\* the merge arm of remove after the merge: the guards are dropped and the
\* emptied page is freed
RemoveMergeEnd(h1, m, survivor_id, freed_id, ret, cleared) ==
  IF m.panic # "" THEN Fail(h1, m.panic)
  ELSE RemoveMergeFreed(FreeTracked([h1 EXCEPT !.pages[survivor_id] = m.node],
                                    freed_id, cleared), ret)

\* the merge arm of remove after the entry has left p: p takes the right
\* sibling's entries, or the left sibling takes p's
RemoveMergeRemoved(h, rm, page_id, parent_id, slot, sibling_id, is_right, ret, cleared) ==
  LET p == NodeAt(h, page_id)
      parent == NodeAt(h, parent_id)
      kidx == IF is_right THEN slot ELSE slot - 1
      h1 == [h EXCEPT !.pages[page_id] = rm.node]
  IN IF rm.panic # "" THEN Fail(h, rm.panic)
     ELSE IF p.kind = "leaf" /\ rm.ret = None THEN Done(h, None)
     ELSE IF kidx < 0 \/ ~(kidx < Count(parent)) THEN Fail(h1, "index out of bounds")
     ELSE IF is_right
     THEN RemoveMergeEnd(h1, NodeMerge(rm.node, NodeAt(h, sibling_id),
                                       At(parent.keys, kidx)),
                         page_id, sibling_id, RetAfter(p, rm, ret), cleared)
     ELSE RemoveMergeEnd(h1, NodeMerge(NodeAt(h, sibling_id), rm.node,
                                       At(parent.keys, kidx)),
                         sibling_id, page_id, RetAfter(p, rm, ret), cleared)

\* the merge arm of remove up to and including the free of the emptied page
RemoveMerge(h, key, page_id, parent_id, slot, sibling_id, is_right, last_parent_slot, ret, cleared) ==
  IF NodeAt(h, page_id).kind # NodeAt(h, sibling_id).kind
  THEN Fail(h, "unreachable: node kinds differ")
  ELSE RemoveMergeRemoved(h, NodeRemove(NodeAt(h, page_id), key, last_parent_slot),
                          page_id, parent_id, slot, sibling_id, is_right, ret, cleared)

\* root collapse after the child has moved into the root page: free(child_id)
RemoveCollapseFreed(h3, ret) ==
  IF h3.panic THEN Fail(h3, "free panics") ELSE Done(h3, ret)

\* root collapse: the only child moves into the root page
RemoveCollapseChild(h1, page_id, child_id, ret, cleared, keeps) ==
  IF ~PageExists(h1, child_id) THEN Fail(h1, "unwrap on None page")
  ELSE IF child_id = page_id THEN Fail(h1, "deadlock")
  ELSE IF NodeAt(h1, child_id).kind \notin {"leaf", "inner"}
  THEN Fail(h1, "page is not a node with a free lock")
  ELSE RemoveCollapseFreed(
         FreeTracked([h1 EXCEPT !.pages[page_id] = NodeAt(h1, child_id),
                                !.pages[child_id] = IF keeps THEN @ ELSE GarbagePage],
                     child_id, cleared), ret)

\* root collapse after inner.remove_idx(last_parent_slot.unwrap())
RemoveCollapse(h, page_id, rm, ret, cleared, keeps) ==
  IF rm.panic # "" THEN Fail(h, rm.panic)
  ELSE IF Count(rm.node) # 0
  THEN Fail([h EXCEPT !.pages[page_id] = rm.node], "assert inner.count() == 0")
  ELSE RemoveCollapseChild([h EXCEPT !.pages[page_id] = rm.node], page_id,
                           rm.node.content[1], ret, cleared, keeps)

\* a return of l.remove(key) or of ret after the easy removal
RemoveReturn(h, page_id, rm, ret, asserted) ==
  IF rm.panic # "" THEN Fail(h, rm.panic)
  ELSE IF asserted /\ ret = None
  THEN Fail([h EXCEPT !.pages[page_id] = rm.node], "assert ret.is_some")
  ELSE Done([h EXCEPT !.pages[page_id] = rm.node], ret)

\* the count() == 1 arm of remove
RemoveLastEntry(h, key, page_id, root_exception, last_parent_slot, ret, cleared, keeps) ==
  IF ~root_exception THEN Fail(h, "assert root_exception")
  ELSE IF NodeAt(h, page_id).kind = "leaf"
  THEN RemoveReturn(h, page_id, LeafRemove(NodeAt(h, page_id), key),
                    LeafRemove(NodeAt(h, page_id), key).ret, FALSE)
  ELSE RemoveCollapse(h, page_id, NodeRemove(NodeAt(h, page_id), key, last_parent_slot),
                      ret, cleared, keeps)

\* the easy arm of remove
RemoveEasy(h, key, page_id, last_parent_slot, ret) ==
  RemoveReturn(h, page_id, NodeRemove(NodeAt(h, page_id), key, last_parent_slot),
               RetAfter(NodeAt(h, page_id),
                        NodeRemove(NodeAt(h, page_id), key, last_parent_slot), ret),
               TRUE)

RECURSIVE RemoveLoop(_, _, _, _, _, _, _, _, _)

\* remove after a merge: the parent is the page at hand of the next round
RemoveNextRound(m, key, parent_id, above, slot, hit_root, cleared, keeps) ==
  IF "merged" \notin DOMAIN m THEN m
  ELSE RemoveLoop(m.heap, key, parent_id, Tail(above), Some(slot), m.ret, hit_root,
                  cleared, keeps)

\* remove with the sibling chosen: borrow from it unless it is half full
RemoveWithSibling(h, key, page_id, above, slot, sib, last_parent_slot, ret, hit_root, cleared, keeps) ==
  IF sib.panic # "" THEN Fail(h, sib.panic)
  ELSE IF ~HalfFull(NodeAt(h, sib.id))
  THEN RemoveBorrow(h, key, page_id, Head(above), slot, sib.id, sib.is_right,
                    last_parent_slot, ret)
  ELSE RemoveNextRound(RemoveMerge(h, key, page_id, Head(above), slot, sib.id,
                                   sib.is_right, last_parent_slot, ret, cleared),
                       key, Head(above), above, slot, hit_root, cleared, keeps)

\* the loop of remove: page_id is the page at hand, above the pages of wpath
\* over it (nearest first), whose write guards are held
RemoveLoop(h, key, page_id, above, last_parent_slot, ret, hit_root, cleared, keeps) ==
  LET page == NodeAt(h, page_id)
      root_exception == hit_root /\ above = <<>>
  IN IF Count(page) = 1
     THEN RemoveLastEntry(h, key, page_id, root_exception, last_parent_slot, ret,
                          cleared, keeps)
     ELSE IF HalfFull(page) /\ ~root_exception
     THEN IF above = <<>> THEN Fail(h, "unwrap on None")
          ELSE IF NodeAt(h, Head(above)).kind # "inner"
          THEN Fail(h, "unreachable: parent is a leaf")
          ELSE RemoveWithSibling(
                 h, key, page_id, above,
                 InnerFindSlot(NodeAt(h, Head(above)).keys, key),
                 ChooseSibling(h, NodeAt(h, Head(above)),
                               InnerFindSlot(NodeAt(h, Head(above)).keys, key),
                               Range(above) \cup {page_id}),
                 last_parent_slot, ret, hit_root, cleared, keeps)
     ELSE RemoveEasy(h, key, page_id, last_parent_slot, ret)

\* remove after wlock_subtree: return None unless the leaf holds the key
RemoveLocked(h, w, key, cleared, keeps) ==
  IF w.panic # "" THEN Fail(h, w.panic)
  ELSE IF ~BinarySearch(NodeAt(h, w.wpath[Len(w.wpath)]).keys, key).ok
  THEN Done(h, None)
  ELSE RemoveLoop(h, key, w.wpath[Len(w.wpath)],
                  Tail(Reverse(w.wpath)), None, None, w.hit_root, cleared, keeps)

\* MappedBTree::remove; cleared is clear_page's effect in free, keeps says
\* whether the child page still holds its old bytes after
\* mem::replace(&mut *child, mem::uninitialized())
TreeRemove(h, key, cleared, keeps) ==
  RemoveLocked(h, WlockSubtree(h, key, NotHalfFull), key, cleared, keeps)

(* ------------------------------ tree actions --------------------------- *)

\* the mapping after the page() calls of a tree operation; in the tree
\* specifications the kernel grants every extension in place
TreeFragments(frags, hsize) ==
  IF MapSize(frags) >= hsize THEN frags
  ELSE LET lastf == frags[Len(frags)]
       IN [frags EXCEPT ![Len(frags)] =
             Grow(lastf, hsize - MapSize(frags), lastf.addr + lastf.size * PAGESZ).self]

\* the value the callers store with key k
ValueOf(k) == ValBase + k

\* MappedBTree::initialize: the heap is initialized and its first alloc
\* returns ROOT_PAGE, a zero page, which reads as the empty leaf
Init ==
  LET a == AllocTracked(Heap(2, 1, <<ZeroPage>>, {}))
  IN /\ header = Header(a.heap)
     /\ pages = a.heap.pages
     /\ fragments = <<Fragment(MapBasePage * PAGESZ, 0, 2)>>
     /\ allocated = a.heap.allocated
     /\ last = Op("init", 0, 0, Some(a.ret))
     /\ panicked = ""
     /\ pageLog = <<>>
     /\ fresh = -1
     /\ present = {}
     /\ nfrees = 0
     /\ threads = <<>>

\* the state a call of insert(k, ValueOf(k)) leaves
InsertStep(k, keeps) ==
  LET r == TreeInsert(H, k, ValueOf(k), keeps)
  IN /\ r.heap.size <= TreeMaxSize
     /\ header' = Header(r.heap)
     /\ pages' = r.heap.pages
     /\ allocated' = r.heap.allocated
     /\ fragments' = TreeFragments(fragments, r.heap.size)
     /\ last' = Op("insert", k, ValueOf(k), None)
     /\ panicked' = r.panic
     /\ present' = IF r.panic = "" THEN present \cup {k} ELSE present
     /\ UNCHANGED <<pageLog, fresh, nfrees, threads>>

\* pub fn insert(&self, key: u64, val: u64) for a key that is not in the tree
Insert ==
  /\ panicked = ""
  /\ \E k \in (1..NKeys) \ present, keeps \in BOOLEAN : InsertStep(k, keeps)

\* the state a call of remove(k) leaves
RemoveStep(k, cleared, keeps) ==
  LET r == TreeRemove(H, k, cleared, keeps)
  IN /\ header' = Header(r.heap)
     /\ pages' = r.heap.pages
     /\ allocated' = r.heap.allocated
     /\ last' = Op("remove", k, 0, r.ret)
     /\ panicked' = r.panic
     /\ present' = present \ {k}
     /\ UNCHANGED <<fragments, pageLog, fresh, nfrees, threads>>

\* pub fn remove(&self, key: u64) -> Option<u64>
Remove ==
  /\ panicked = ""
  /\ \E k \in 1..NKeys, cleared \in BOOLEAN, keeps \in BOOLEAN :
       RemoveStep(k, cleared, keeps)

Next == Insert \/ Remove

Spec == Init /\ [][Next]_vars

\* insert of a key next to the keys present: one below the least or one above
\* the greatest (any key into the empty tree)
InsertAtEnd ==
  /\ panicked = ""
  /\ \E k \in (1..GrowKeys) \ present, keeps \in BOOLEAN :
       /\ present # {} => (k + 1 \in present \/ k - 1 \in present)
       /\ InsertStep(k, keeps)

\* insert of the next key of SpecDeep's order: upwards from DeepFirst to
\* DeepKeys, then downwards from DeepFirst - 1 to 1
InsertOutward ==
  /\ panicked = ""
  /\ \E k \in (1..DeepKeys) \ present, keeps \in BOOLEAN :
       /\ \/ k >= DeepFirst /\ present = DeepFirst..(k - 1)
          \/ k < DeepFirst /\ present = (k + 1)..DeepKeys
       /\ InsertStep(k, keeps)

\* remove of one of the keys SpecDeep removes, once key 1 has been inserted
RemoveDeep ==
  /\ panicked = ""
  /\ 1 \in present
  /\ \E k \in DeepRemoved, cleared \in BOOLEAN, keeps \in BOOLEAN :
       RemoveStep(k, cleared, keeps)

NextDeep == InsertOutward \/ RemoveDeep

SpecDeep == Init /\ [][NextDeep]_vars

NextGrow == InsertAtEnd

SpecGrow == Init /\ [][NextGrow]_vars

\* the keys SpecReuse inserts first: every ReuseStride-th key, in the order
\* of SpecDeep
ReuseKey(i) == ReuseStride * i

ReuseKeys(a, b) == {ReuseKey(i) : i \in a..b}

\* insert of the next key of SpecReuse's first phase
InsertSpaced ==
  /\ panicked = ""
  /\ \E i \in 1..DeepKeys, keeps \in BOOLEAN :
       /\ ReuseKey(i) \notin present
       /\ \/ i >= DeepFirst /\ present = ReuseKeys(DeepFirst, i - 1)
          \/ i < DeepFirst /\ present = ReuseKeys(i + 1, DeepKeys)
       /\ InsertStep(ReuseKey(i), keeps)

\* remove of one of the keys SpecReuse removes, once the first phase is over
RemoveReuse ==
  /\ panicked = ""
  /\ ReuseKey(1) \in present
  /\ \E k \in ReuseRemoved, cleared \in BOOLEAN, keeps \in BOOLEAN :
       RemoveStep(k, cleared, keeps)

\* insert of a key between the keys of the first phase, once that is over
InsertLate ==
  /\ panicked = ""
  /\ ReuseKey(1) \in present
  /\ \E k \in ReuseLate \ present, keeps \in BOOLEAN : InsertStep(k, keeps)

NextReuse == InsertSpaced \/ RemoveReuse \/ InsertLate

SpecReuse == Init /\ [][NextReuse]_vars

(* ------------------------------ heap properties ------------------------ *)

\* the free-list chain from id: the chain pages in order, ok iff the chain
\* reaches NULL_PAGE through existing pages without visiting one twice
RECURSIVE ChainFrom(_, _, _, _)
ChainFrom(pgs, size, id, seen) ==
  IF id = NULL_PAGE THEN [ok |-> TRUE, ids |-> seen]
  ELSE IF ~(id < size) \/ id \in Range(seen) THEN [ok |-> FALSE, ids |-> seen]
  ELSE ChainFrom(pgs, size, AsFreelist(pgs[id]).next, Append(seen, id))

Chain == ChainFrom(pages, header.size, header.freelist_id, <<>>)

ChainPages == Range(Chain.ids)

Entries(id) == AsFreelist(pages[id]).entries

\* the chain pages that list id, counted with multiplicity
Listings(id) ==
  {<<c, i>> \in ChainPages \X (1..FREELIST_E_PER_PAGE) :
     i <= Len(Entries(c)) /\ Entries(c)[i] = id}

FreePages == ChainPages \cup UNION {Range(Entries(c)) : c \in ChainPages}

AllocStep == last'.op = "alloc" /\ last'.ret # None

Ret == last'.ret[1]

IsPowerOfTwo(n) == n \in {2, 4, 8, 16, 32, 64}

\* C6: alloc never returns NULL_PAGE, always returns an id below header.size,
\* and never returns an id that is currently allocated.
C6_AllocReturnsFreshPage ==
  [][AllocStep => /\ panicked' = ""
                  /\ Ret # NULL_PAGE
                  /\ Ret < header'.size
                  /\ Ret \notin allocated]_vars

C6_Witness ==
  /\ last.op = "alloc" /\ nfrees >= 2 /\ header.size = MaxSize
  /\ Cardinality(allocated) >= 3 /\ panicked = ""

\* C7: the free-list chain from header.freelist_id is acyclic and ends at
\* NULL_PAGE, no chain page holds more than FREELIST_E_PER_PAGE entries, and
\* every page id in [1, header.size) is exactly one of: allocated, a chain
\* page, or an entry of exactly one chain page.
C7_HeapPartition ==
  /\ panicked = ""
  /\ Chain.ok
  /\ \A c \in ChainPages : ~AsFreelist(pages[c]).huge
                           /\ Len(Entries(c)) <= FREELIST_E_PER_PAGE
  /\ \A id \in 1..(header.size - 1) :
       \/ id \in allocated /\ id \notin ChainPages /\ Listings(id) = {}
       \/ id \notin allocated /\ id \in ChainPages /\ Listings(id) = {}
       \/ id \notin allocated /\ id \notin ChainPages /\ Cardinality(Listings(id)) = 1

C7_Witness ==
  /\ Cardinality(ChainPages) >= 2
  /\ \E c \in ChainPages : Len(Entries(c)) = FREELIST_E_PER_PAGE
  /\ allocated # {} /\ nfrees >= 2 /\ header.size = MaxSize

\* C8: header.size is 2 after initialize, is always a power of two >= 2, and
\* changes only by doubling inside alloc; free never changes it.
C8_SizeDoubles ==
  /\ header.size = 2
  /\ [](IsPowerOfTwo(header.size) /\ header.size >= 2)
  /\ [][header'.size # header.size =>
          header'.size = 2 * header.size /\ last'.op = "alloc"]_vars

C8_Witness == header.size = MaxSize /\ nfrees >= 1 /\ last.op = "free"

\* C9: alloc extends the file exactly when no free page exists: with
\* freelist_id # NULL_PAGE it leaves header.size alone and returns a page of
\* the free list; freelist_id = NULL_PAGE holds iff all of 1..size-1 are
\* allocated, and then alloc doubles header.size and returns the old size.
\* On a fresh heap the allocs return 1 (size 2), 2 (size 4), 3 (size 4), and
\* with exactly 1, 2, 3 allocated at size 4 the next alloc returns 4, size 8.
C9_ExtendsOnlyWhenFull ==
  /\ [](header.freelist_id = NULL_PAGE <=> allocated = 1..(header.size - 1))
  /\ [](/\ fresh = 1 => last.ret = Some(1) /\ header.size = 2
        /\ fresh = 2 => last.ret = Some(2) /\ header.size = 4
        /\ fresh = 3 => last.ret = Some(3) /\ header.size = 4)
  /\ [][AllocStep =>
          /\ header.freelist_id # NULL_PAGE =>
               header'.size = header.size /\ Ret \in FreePages
          /\ header.freelist_id = NULL_PAGE =>
               header'.size = 2 * header.size /\ Ret = header.size
          /\ allocated = {1, 2, 3} /\ header.size = 4 =>
               Ret = 4 /\ header'.size = 8]_vars

C9_Witness ==
  /\ nfrees = 3 /\ last = Op("alloc", 0, 0, Some(4))
  /\ header.size = 8 /\ allocated = {1, 2, 3, 4}

\* the fragments whose page range contains id
Covering(id) ==
  {i \in 1..Len(fragments) :
     fragments[i].offset <= id /\ id < fragments[i].offset + fragments[i].size}

\* C10: page(id) returns None iff id = 0 or id >= header.size; otherwise it
\* returns fragment.addr + (id - fragment.offset) * PAGESZ of the one fragment
\* whose page range contains id, the mapping having been extended first (in
\* place or by a new fragment) when id was not covered.
C10_PageAddress ==
  /\ panicked = ""
  /\ \A n \in 1..Len(pageLog) :
       LET e == pageLog[n]
       IN /\ e.res = None <=> (e.id = 0 \/ e.id >= header.size)
          /\ e.res # None =>
               /\ Cardinality(Covering(e.id)) = 1
               /\ \A i \in Covering(e.id) :
                    e.res = Some(fragments[i].addr
                                 + (e.id - fragments[i].offset) * PAGESZ)

C10_Witness ==
  /\ last.op = "page" /\ last.ret # None
  /\ Len(fragments) = 3 /\ last.arg > fragments[3].offset


(* ------------------------------ tree properties ------------------------ *)

\* the heap after the step
HNext == Heap(header'.size, header'.freelist_id, pages', allocated')

InsertReturned == last'.op = "insert"

RemoveReturned == last'.op = "remove"

\* C1: insert(k, v) for a key k not currently in the tree completes without
\* panicking and afterwards get(k) returns Some(v), whatever the height of
\* the tree and whichever of leaf split, inner split and root split it needs.
C1_InsertThenGet ==
  [][InsertReturned /\ last'.arg \notin present =>
       /\ panicked' = ""
       /\ Get(HNext, last'.arg) = Some(last'.val)]_vars

\* C2: insert(k, v) does not change what get(k') returns for any k' # k;
\* after any sequence of inserts every key inserted so far is still returned
\* by get with its value, keys moved to another page by a split included.
C2_InsertKeepsOthers ==
  /\ [][InsertReturned =>
          \A k \in (1..GrowKeys) \ {last'.arg} : Get(HNext, k) = Get(H, k)]_vars
  /\ [](\A k \in present : Get(H, k) = Some(ValueOf(k)))

\* C3: remove(k) of a key that is in the tree completes without panicking
\* and returns Some(v); afterwards get(k) is None and a second remove(k)
\* returns None, whichever of plain removal, borrow, merge, propagation and
\* root collapse it takes.
C3_RemovePresent ==
  [][RemoveReturned /\ last'.arg \in present =>
       /\ panicked' = ""
       /\ last'.ret = Some(ValueOf(last'.arg))
       /\ Get(HNext, last'.arg) = None
       /\ \A cleared \in BOOLEAN, keeps \in BOOLEAN :
            /\ TreeRemove(HNext, last'.arg, cleared, keeps).panic = ""
            /\ TreeRemove(HNext, last'.arg, cleared, keeps).ret = None]_vars

\* C4: a remove(k) that returns does not change what get(k') returns for any
\* k' # k, in particular after a borrow from or a merge with the right or
\* left sibling.
C4_RemoveKeepsOthers ==
  [][RemoveReturned /\ panicked' = "" =>
       \A k \in (1..DeepKeys) \ {last'.arg} : Get(HNext, k) = Get(H, k)]_vars

\* C5: remove(k) of a key that is not in the tree (the empty tree included)
\* returns None and leaves every tree page, the heap's free list and
\* header.size unchanged; it is idempotent and get(k) stays None.
C5_RemoveAbsent ==
  [][RemoveReturned /\ last'.arg \notin present =>
       /\ panicked' = ""
       /\ last'.ret = None
       /\ pages' = pages
       /\ header' = header
       /\ Get(HNext, last'.arg) = None
       /\ \A cleared \in BOOLEAN, keeps \in BOOLEAN :
            TreeRemove(HNext, last'.arg, cleared, keeps) = Done(HNext, None)]_vars

\* the node PageId 1 holds
Root(h) == NodeAt(h, ROOT_PAGE)

\* insert(key, ..) on heap h splits the root: wlock_subtree finds every node
\* of the path full and reports split_root
SplitsRoot(h, key) ==
  /\ WlockSubtree(h, key, NotFull).panic = ""
  /\ WlockSubtree(h, key, NotFull).hit_root

\* C11: PageId 1 is the page initialize allocated, no insert or remove frees
\* it, and it holds the root node; after an insert that splits the root it
\* is an inner node with exactly one key and two children L and R that this
\* insert allocated, L holding the lower part of the old root.
C11_RootIdentity ==
  /\ [](ROOT_PAGE \in allocated /\ Root(H).kind \in {"leaf", "inner"})
  /\ [][InsertReturned /\ SplitsRoot(H, last'.arg) =>
          /\ panicked' = ""
          /\ Root(HNext).kind = "inner"
          /\ Len(Root(HNext).keys) = 1
          /\ LET L == Root(HNext).content[1]
                 R == Root(HNext).content[2]
             IN /\ L # R
                /\ {L, R} \cap allocated = {}
                /\ {L, R} \subseteq allocated'
                /\ NodeAt(HNext, L).kind = Root(H).kind
                /\ NodeAt(HNext, R).kind = Root(H).kind
                /\ NodeAt(HNext, L).keys # <<>>
                /\ \A i \in 1..Len(NodeAt(HNext, L).keys) :
                     NodeAt(HNext, L).keys[i] < Root(HNext).keys[1]
                /\ NodeAt(HNext, L).keys[1] = Min(Root(H).keys[1], last'.arg)]_vars

\* the pages reachable from the pages of frontier through children of inner
\* nodes, seen included
RECURSIVE ReachFrom(_, _, _)
ReachFrom(h, frontier, seen) ==
  IF frontier = {} THEN seen
  ELSE LET id == CHOOSE x \in frontier : TRUE
           kids == IF PageExists(h, id) /\ NodeAt(h, id).kind = "inner"
                   THEN Range(NodeAt(h, id).content) ELSE {}
       IN ReachFrom(h, (frontier \cup kids) \ (seen \cup {id}), seen \cup {id})

\* the pages of the tree: what a descent from PageId 1 can reach
TreePages(h) == ReachFrom(h, {ROOT_PAGE}, {})

\* no operation is in progress and none was cut short by a panic
Quiescent == panicked = ""

\* page id of heap h holds a node
IsNode(h, id) == PageExists(h, id) /\ NodeAt(h, id).kind \in {"leaf", "inner"}

\* C12: in every quiescent state every node other than the root has
\* HALF <= count <= MAX and the root has count <= MAX.
C12_Occupancy ==
  Quiescent =>
    /\ Count(Root(H)) <= MAX
    /\ \A id \in TreePages(H) \ {ROOT_PAGE} :
         /\ IsNode(H, id)
         /\ HALF <= Count(NodeAt(H, id))
         /\ Count(NodeAt(H, id)) <= MAX

\* keys[0..count) strictly ascending
Ascending(keys) == \A i \in 1..(Len(keys) - 1) : keys[i] < keys[i + 1]

\* every key stored in the subtree of page id
KeysUnder(h, id) ==
  UNION {Range(NodeAt(h, p).keys) : p \in {q \in ReachFrom(h, {id}, {}) : IsNode(h, q)}}

\* the separator rule at inner node n: keys under children[i] lie in
\* [keys[i-1], keys[i])
Separates(h, n) ==
  /\ Ascending(n.keys)
  /\ \A i \in 0..Count(n) : \A k \in KeysUnder(h, At(n.content, i)) :
       /\ i > 0 => At(n.keys, i - 1) <= k
       /\ i < Count(n) => k < At(n.keys, i)

\* C13: in every quiescent state the keys of every inner node are strictly
\* ascending and every key in the subtree of children[i] is >= keys[i-1]
\* and < keys[i].
C13_Separators ==
  Quiescent =>
    \A id \in TreePages(H) :
       IsNode(H, id) /\ NodeAt(H, id).kind = "inner" => Separates(H, NodeAt(H, id))

\* the leaves of the tree
Leaves(h) == {id \in TreePages(h) : IsNode(h, id) /\ NodeAt(h, id).kind = "leaf"}

\* the leftmost leaf: children[0] from the root down (NULL_PAGE if that
\* descent meets a page that is no node)
RECURSIVE LeftmostFrom(_, _, _)
LeftmostFrom(h, id, seen) ==
  IF ~IsNode(h, id) \/ id \in seen THEN NULL_PAGE
  ELSE IF NodeAt(h, id).kind = "leaf" THEN id
  ELSE LeftmostFrom(h, At(NodeAt(h, id).content, 0), seen \cup {id})

\* the pages met by following LeafNode.next from page id to NULL_PAGE; the
\* walk ends with NULL_PAGE in the sequence when it meets a page that is no
\* leaf or a page for the second time
RECURSIVE NextChain(_, _, _)
NextChain(h, id, seen) ==
  IF id = NULL_PAGE THEN seen
  ELSE IF ~IsNode(h, id) \/ NodeAt(h, id).kind # "leaf" \/ id \in Range(seen)
  THEN Append(seen, NULL_PAGE)
  ELSE NextChain(h, NodeAt(h, id).next, Append(seen, id))

LeafChain(h) == NextChain(h, LeftmostFrom(h, ROOT_PAGE, {}), <<>>)

\* the keys of the leaves of chain, in the order of the chain
RECURSIVE ChainKeys(_, _)
ChainKeys(h, chain) ==
  IF chain = <<>> THEN <<>>
  ELSE NodeAt(h, Head(chain)).keys \o ChainKeys(h, Tail(chain))

\* C14: in every quiescent state the keys of each leaf are strictly
\* ascending and the next pointers from the leftmost leaf visit every leaf
\* of the tree exactly once, in ascending key order, ending at NULL.
C14_LeafChain ==
  Quiescent =>
    /\ NULL_PAGE \notin Range(LeafChain(H))
    /\ Range(LeafChain(H)) = Leaves(H)
    /\ Ascending(ChainKeys(H, LeafChain(H)))

\* C15: in every quiescent state the child ids of every inner node of the
\* tree are pairwise distinct, not NULL and allocated in the heap (not on
\* the free list), and no page is a child of two nodes; after a merge the
\* parent does not refer to the freed page.
C15_ChildPointers ==
  Quiescent =>
    /\ \A id \in TreePages(H) :
         IsNode(H, id) /\ NodeAt(H, id).kind = "inner" =>
           LET c == NodeAt(H, id).content
           IN /\ \A i, j \in 1..Len(c) : i # j => c[i] # c[j]
              /\ \A i \in 1..Len(c) :
                   /\ c[i] # NULL_PAGE
                   /\ c[i] \in allocated
                   /\ c[i] \notin FreePages
    /\ \A a, b \in TreePages(H) :
         /\ a # b
         /\ IsNode(H, a) /\ NodeAt(H, a).kind = "inner"
         /\ IsNode(H, b) /\ NodeAt(H, b).kind = "inner"
         => Range(NodeAt(H, a).content) \cap Range(NodeAt(H, b).content) = {}

\* C16: in every quiescent state the pages allocated from the heap are the
\* pages reachable from PageId 1; once every key has been removed again,
\* PageId 1 is the only allocated page.
C16_NoPageLeak ==
  Quiescent =>
    /\ allocated = TreePages(H)
    /\ present = {} => allocated = {ROOT_PAGE}

\* remove(key) on heap h has to collapse the root: the root is an inner node
\* with one key over two half full leaves, one of which holds key
CollapsesRoot(h, key) ==
  /\ Root(h).kind = "inner" /\ Count(Root(h)) = 1
  /\ \A i \in 1..2 :
       /\ IsNode(h, Root(h).content[i])
       /\ NodeAt(h, Root(h).content[i]).kind = "leaf"
       /\ HalfFull(NodeAt(h, Root(h).content[i]))
  /\ Get(h, key) # None

\* C17: when the root is an inner node with one key and a remove merges its
\* two children, the root's count drops to 0, the remaining child's content
\* moves into PageId 1, both pages of the children are free again and remove
\* returns the removed value without a panic; the root collapses in no other
\* situation.
C17_RootCollapse ==
  /\ [][RemoveReturned /\ CollapsesRoot(H, last'.arg) =>
          /\ panicked' = ""
          /\ last'.ret = Get(H, last'.arg)
          /\ Root(HNext).kind = "leaf"
          /\ Range(Root(HNext).keys) = KeysUnder(H, ROOT_PAGE) \ (Range(Root(H).keys) \cup {last'.arg})
          /\ allocated' = allocated \ Range(Root(H).content)]_vars
  /\ [][Root(H).kind = "inner" /\ Root(HNext).kind # "inner" =>
          RemoveReturned /\ CollapsesRoot(H, last'.arg)]_vars

\* C18: when the root is a leaf holding exactly one key k, remove(k) returns
\* Some(v) without a panic and leaves PageId 1 a leaf with count 0;
\* afterwards get of any key is None and insert works on the empty tree.
C18_EmptyingTheTree ==
  [][RemoveReturned /\ Root(H).kind = "leaf" /\ Root(H).keys = <<last'.arg>> =>
       /\ panicked' = ""
       /\ last'.ret = Some(Root(H).content[1])
       /\ Root(HNext).kind = "leaf" /\ Count(Root(HNext)) = 0
       /\ \A k \in 1..NKeys :
            /\ Get(HNext, k) = None
            /\ \A keeps \in BOOLEAN :
                 /\ TreeInsert(HNext, k, ValueOf(k), keeps).panic = ""
                 /\ Get(TreeInsert(HNext, k, ValueOf(k), keeps).heap, k) = Some(ValueOf(k))]_vars

(* ------------------- ExtensibleMapping (extensiblemapping.rs) ---------- *)

\* the mapping as its callers see it: header.size (pages of the file),
\* ExtensibleMapping::size (pages this process has mapped), header.freelist_id,
\* whether header.alloc_lock is held, and the page contents
Mapping(size, mapped, freelist_id, alloc_lock, pgs) ==
  [size |-> size, mapped |-> mapped, freelist_id |-> freelist_id,
   alloc_lock |-> alloc_lock, pages |-> pgs]

\* the outcome of a call on the mapping: it returned ret, or it ended in a
\* panic, or it waits for a lock that nobody releases
Returned(m, ret) == [mapping |-> m, ret |-> ret, panic |-> ""]

Stuck(m, why) == [mapping |-> m, ret |-> None, panic |-> why]

AcquireBlocks == "alloc_lock.acquire() does not return"

\* ExtensibleMapping::page: Some page for id
MappingPage(m, id) == id # 0 /\ id < m.mapped

\* grow_file: the file is doubled unless header.size is there already
GrowFile(m) ==
  LET target == m.mapped * 2
  IN IF m.size < target
     THEN [m EXCEPT !.size = target,
                    !.pages = [i \in 1..(target - 1) |->
                                 IF i < m.size THEN m.pages[i] ELSE ZeroPage]]
     ELSE m

\* the loop of do_alloc's slow path over the pages first_free..last_free-1
RECURSIVE DoAllocChain(_, _, _, _)
DoAllocChain(pgs, freelist_id, first_free, last_free) ==
  IF first_free = last_free
  THEN [pages |-> pgs, freelist_id |-> freelist_id]
  ELSE LET pid == last_free - 1
           n_entries == Min(pid - first_free, FREELIST_E_PER_PAGE)
           page == FreelistPage([i \in 1..n_entries |-> (i - 1) + first_free],
                                freelist_id)
       IN DoAllocChain([pgs EXCEPT ![pid] = page], pid, first_free + n_entries, pid)

\* do_alloc's slow path with alloc_lock held: mutable says whether this is
\* MaybeMut::MutRef (alloc) or MaybeMut::Ref (try_alloc), inplace whether
\* try_grow_mapping_inplace succeeds; without either the call returns None
\* from inside the locked region
DoAllocSlow(m, mutable, inplace) ==
  LET ret == m.mapped
      g == GrowFile(m)
      r == [g EXCEPT !.mapped = g.size]
      c == DoAllocChain(r.pages, r.freelist_id, ret + 1, r.mapped)
  IN IF ~inplace /\ ~mutable
     THEN Returned(g, None)
     ELSE Returned([r EXCEPT !.pages = c.pages, !.freelist_id = c.freelist_id,
                             !.alloc_lock = FALSE], Some(ret))

\* do_alloc's fast path with alloc_lock held
DoAllocFast(m) ==
  LET id == m.freelist_id
      freelist == IF MappingPage(m, id) THEN AsFreelist(m.pages[id])
                  ELSE AsFreelist(GarbagePage)
      n == Len(freelist.entries)
  IN IF ~MappingPage(m, id) THEN Stuck(m, "unwrap on None page")
     ELSE IF freelist.huge THEN Stuck(m, "index out of bounds")
     ELSE IF n = 0
     THEN Returned([m EXCEPT !.freelist_id = freelist.next, !.alloc_lock = FALSE],
                   Some(id))
     ELSE Returned([m EXCEPT !.pages[id] =
                               FreelistPage(Slice(freelist.entries, 0, n - 1), freelist.next),
                             !.alloc_lock = FALSE],
                   Some(At(freelist.entries, n - 1)))

\* ExtensibleMapping::do_alloc
DoAlloc(m, mutable, inplace) ==
  IF m.alloc_lock THEN Stuck(m, AcquireBlocks)
  ELSE IF m.freelist_id = NULL_PAGE
  THEN DoAllocSlow([m EXCEPT !.alloc_lock = TRUE], mutable, inplace)
  ELSE DoAllocFast([m EXCEPT !.alloc_lock = TRUE])

\* ExtensibleMapping::try_alloc
TryAlloc(m, inplace) == DoAlloc(m, FALSE, inplace)

\* ExtensibleMapping::alloc: do_alloc(self.into()).unwrap()
MappingAlloc(m, inplace) == DoAlloc(m, TRUE, inplace)

\* ExtensibleMapping::free; cleared says whether clear_page zeroed the page
MappingFree(m, id, cleared) ==
  IF ~(id < m.mapped) THEN Stuck(m, "assert id < size")
  ELSE IF m.alloc_lock THEN Stuck(m, AcquireBlocks)
  ELSE IF m.freelist_id # NULL_PAGE /\ ~MappingPage(m, m.freelist_id)
  THEN Stuck([m EXCEPT !.alloc_lock = TRUE], "unwrap on None page")
  ELSE LET freelist == IF m.freelist_id # NULL_PAGE
                       THEN AsFreelist(m.pages[m.freelist_id])
                       ELSE AsFreelist(GarbagePage)
       IN IF /\ m.freelist_id # NULL_PAGE
             /\ ~freelist.huge
             /\ Len(freelist.entries) < FREELIST_E_PER_PAGE
          THEN LET appended == [m EXCEPT !.pages[m.freelist_id] =
                                  FreelistPage(Append(freelist.entries, id),
                                               freelist.next)]
               IN Returned(IF cleared THEN [appended EXCEPT !.pages[id] = ZeroPage]
                           ELSE appended, None)
          ELSE IF ~MappingPage(m, id)
          THEN Stuck([m EXCEPT !.alloc_lock = TRUE], "unwrap on None page")
          ELSE Returned([m EXCEPT !.pages[id] = FreelistPage(<<>>, m.freelist_id),
                                  !.freelist_id = id], None)

(* ------------------- btree nodes of src/src/btree.rs ------------------- *)
(* A node of btree.rs is kept with its whole arrays: keys and content have   *)
(* the length of the arrays of the source (MAX keys, MAX data, MAX + 1       *)
(* children) and count says how many slots are live; the slots behind count  *)
(* hold what was last written there (zero after mem::zeroed()).              *)

Zeroed(n) == [i \in 1..n |-> 0]

LeafNodeActual(count, keys, data, next) ==
  [kind |-> "leaf", count |-> count, keys |-> keys, content |-> data, next |-> next]

InnerNodeActual(count, keys, children) ==
  [kind |-> "inner", count |-> count, keys |-> keys, content |-> children,
   next |-> NULL_PAGE]

\* BTreePageInner::Leaf(mem::zeroed()) and BTreePageInner::Inner(mem::zeroed())
ZeroedLeaf == LeafNodeActual(0, Zeroed(MAX), Zeroed(MAX), NULL_PAGE)

ZeroedInner == InnerNodeActual(0, Zeroed(MAX), Zeroed(MAX + 1))

\* the page read as BTreePage: a page of zero bytes has tag Leaf and count 0
AsBTreePage(pg) ==
  IF pg.kind = "freelist"
  THEN IF pg = ZeroPage THEN ZeroedLeaf ELSE GarbagePage
  ELSE pg

\* keys(), data() and children(): the live slots
ActualKeys(n) == Slice(n.keys, 0, n.count)

ActualData(n) == Slice(n.content, 0, n.count)

ActualChildren(n) == Slice(n.content, 0, n.count + 1)

\* full() of LeafNodeActual and InnerNodeActual
ActualFull(n) == n.count = MAX

\* fn find_slot: Ok(i) => i, Err(i) => i
FindSlot(keys, key) == BinarySearch(keys, key).i

\* ptr::copy(&arr[src], &mut arr[dst], n)
PtrCopy(arr, src, dst, n) ==
  [t \in 1..Len(arr) |->
     IF t - 1 >= dst /\ t - 1 < dst + n THEN arr[t - dst + src] ELSE arr[t]]

\* arr[a..b].copy_from_slice(src) is defined when the slice exists and the
\* lengths agree; it panics otherwise
SliceFits(arr, a, b, src) == a <= b /\ b <= Len(arr) /\ b - a = Len(src)

CopyFromSlice(arr, a, b, src) ==
  [t \in 1..Len(arr) |-> IF t - 1 >= a /\ t - 1 < b THEN src[t - a] ELSE arr[t]]

\* LeafNodeActual::insert
LeafNodeActualInsert(l, key, val) ==
  LET i == FindSlot(ActualKeys(l), key)
  IN IF ActualFull(l) THEN Panic("assert !self.full()")
     ELSE Ok([l EXCEPT !.keys = SetAt(PtrCopy(l.keys, i, i + 1, l.count - i), i, key),
                       !.content = SetAt(PtrCopy(l.content, i, i + 1, l.count - i), i, val),
                       !.count = l.count + 1], None)

\* InnerNodeActual::insert; &mut self.keys[i + 1] is a checked index
InnerNodeActualInsert(n, key, newpage) ==
  LET i == FindSlot(ActualKeys(n), key)
  IN IF ActualFull(n) THEN Panic("assert !self.full()")
     ELSE IF i + 1 >= Len(n.keys) THEN Panic("index out of bounds")
     ELSE Ok([n EXCEPT !.keys = SetAt(PtrCopy(n.keys, i, i + 1, n.count - i), i, key),
                       !.content = SetAt(PtrCopy(n.content, i, i + 1, n.count - i),
                                         i + 1, newpage),
                       !.count = n.count + 1], None)

\* the outcome of a split: self, target and the key handed to the parent
SplitOk(self, target, ret) == [panic |-> "", node |-> self, target |-> target, ret |-> ret]

SplitPanic(why) == [panic |-> why, node |-> GarbagePage, target |-> GarbagePage, ret |-> 0]

\* split, "add to target": the target array gets raw[from..i], then new at
\* i - from, then live[i..] up to rest
SplitAddToTarget(raw, live, tgt, from, i, at, rest, new) ==
  CopyFromSlice(SetAt(CopyFromSlice(tgt, 0, at, Slice(raw, from, i)), at, new),
                at + 1, rest, Slice(live, i, Len(live)))

\* LeafNodeActual::split, i > remain
LeafNodeActualSplitToTarget(l, newkey, newval, target, target_id, remain, rest, i) ==
  IF ~(/\ SliceFits(target.keys, 0, i - remain, Slice(l.keys, remain, i))
       /\ SliceFits(target.keys, i - remain + 1, rest, Slice(ActualKeys(l), i, l.count)))
  THEN SplitPanic("copy_from_slice")
  ELSE LET tkeys == SplitAddToTarget(l.keys, ActualKeys(l), target.keys, remain, i,
                                     i - remain, rest, newkey)
           tdata == SplitAddToTarget(l.content, ActualData(l), target.content, remain, i,
                                     i - remain, rest, newval)
       IN SplitOk([l EXCEPT !.count = remain, !.next = target_id],
                  [target EXCEPT !.keys = tkeys, !.content = tdata, !.count = rest,
                                 !.next = l.next],
                  tkeys[1])

\* LeafNodeActual::split, i <= remain
LeafNodeActualSplitToSelf(l, newkey, newval, target, target_id, remain, rest, i) ==
  IF ~SliceFits(target.keys, 0, rest, Slice(ActualKeys(l), remain, l.count))
  THEN SplitPanic("copy_from_slice")
  ELSE LET tkeys == CopyFromSlice(target.keys, 0, rest, Slice(ActualKeys(l), remain, l.count))
           tdata == CopyFromSlice(target.content, 0, rest, Slice(ActualData(l), remain, l.count))
       IN SplitOk([l EXCEPT !.keys = SetAt(PtrCopy(l.keys, i, i + 1, remain - i), i, newkey),
                            !.content = SetAt(PtrCopy(l.content, i, i + 1, remain - i), i, newval),
                            !.count = remain + 1, !.next = target_id],
                  [target EXCEPT !.keys = tkeys, !.content = tdata, !.count = rest,
                                 !.next = l.next],
                  tkeys[1])

\* LeafNodeActual::split
LeafNodeActualSplit(l, newkey, newval, target, target_id) ==
  LET remain == l.count \div 2
      rest == l.count - remain
      i == FindSlot(ActualKeys(l), newkey)
  IN IF i > remain
     THEN LeafNodeActualSplitToTarget(l, newkey, newval, target, target_id, remain, rest + 1, i)
     ELSE LeafNodeActualSplitToSelf(l, newkey, newval, target, target_id, remain, rest, i)

\* InnerNodeActual::split, i > remain
InnerNodeActualSplitToTarget(n, newkey, newval, target, remain, rest, i) ==
  LET before == i - remain - 1
      after == before + 1
  IN IF ~(/\ SliceFits(target.keys, 0, before, Slice(n.keys, remain + 1, i))
          /\ SliceFits(target.content, 0, before + 1, Slice(n.content, remain, i))
          /\ SliceFits(target.keys, after, rest, Slice(ActualKeys(n), i, n.count))
          /\ SliceFits(target.content, after + 1, rest + 1,
                       Slice(ActualChildren(n), i, n.count + 1)))
     THEN SplitPanic("copy_from_slice")
     ELSE SplitOk([n EXCEPT !.count = remain],
                  [target EXCEPT
                     !.keys = SplitAddToTarget(n.keys, ActualKeys(n), target.keys,
                                               remain + 1, i, before, rest, newkey),
                     !.content = CopyFromSlice(
                                   SetAt(CopyFromSlice(target.content, 0, before + 1,
                                                       Slice(n.content, remain, i)),
                                         before + 1, newval),
                                   after + 1, rest + 1,
                                   Slice(ActualChildren(n), i, n.count + 1)),
                     !.count = rest],
                  At(n.keys, remain))

\* InnerNodeActual::split, i <= remain
InnerNodeActualSplitToSelf(n, newkey, newval, target, remain, rest, i) ==
  IF ~(/\ SliceFits(target.keys, 0, rest, Slice(ActualKeys(n), remain + 1, n.count))
       /\ SliceFits(target.content, 0, rest + 1,
                    Slice(ActualChildren(n), remain, n.count + 1)))
  THEN SplitPanic("copy_from_slice")
  ELSE SplitOk([n EXCEPT !.keys = SetAt(PtrCopy(n.keys, i, i + 1, remain - i), i, newkey),
                         !.content = SetAt(PtrCopy(n.content, i, i + 1, remain - i), i, newval),
                         !.count = remain + 1],
               [target EXCEPT
                  !.keys = CopyFromSlice(target.keys, 0, rest,
                                         Slice(ActualKeys(n), remain + 1, n.count)),
                  !.content = CopyFromSlice(target.content, 0, rest + 1,
                                            Slice(ActualChildren(n), remain, n.count + 1)),
                  !.count = rest],
               At(n.keys, remain))

\* InnerNodeActual::split
InnerNodeActualSplit(n, newkey, newval, target) ==
  LET remain == n.count \div 2
      rest == n.count - remain
      i == FindSlot(ActualKeys(n), newkey)
  IN IF i > remain
     THEN InnerNodeActualSplitToTarget(n, newkey, newval, target, remain, rest, i)
     ELSE InnerNodeActualSplitToSelf(n, newkey, newval, target, remain, rest - 1, i)

(* ------------------- MappedBTree of src/src/btree.rs ------------------- *)

\* the node a page guard of btree.rs dereferences to
NodeOf(m, id) == AsBTreePage(m.pages[id])

\* what a get that unwinds or does not come back yields
Unwound == <<-2>>

\* the descent of get and try_insert: self.page(current).unwrap().read(),
\* then children()[find_slot(keys(), key)] while the node is Inner
RECURSIVE TryDescend(_, _, _, _)
TryDescend(m, current, key, path) ==
  IF ~MappingPage(m, current) THEN [panic |-> "unwrap on None page", path |-> path]
  ELSE IF current \in Range(path) THEN [panic |-> "descent does not end", path |-> path]
  ELSE LET n == NodeOf(m, current)
       IN IF n.kind = "leaf" THEN [panic |-> "", path |-> Append(path, current)]
          ELSE IF n.kind = "inner"
          THEN TryDescend(m, At(ActualChildren(n), FindSlot(ActualKeys(n), key)), key,
                          Append(path, current))
          ELSE [panic |-> "page is not a node with a free lock", path |-> path]

\* l.keys.iter().position(|&x| x == key).map(|i| l.data[i]) over the whole
\* array keys of the leaf
LeafPosition(l, key) ==
  LET hits == {i \in 1..Len(l.keys) : l.keys[i] = key}
  IN IF hits = {} THEN None
     ELSE Some(l.content[CHOOSE i \in hits : \A j \in hits : i <= j])

\* MappedBTree::get of btree.rs
BTreeGet(m, key) ==
  LET d == TryDescend(m, ROOT_PAGE, key, <<>>)
  IN IF d.panic # "" THEN Unwound
     ELSE LeafPosition(NodeOf(m, d.path[Len(d.path)]), key)

\* iter().rposition(|x| !is_full(x)) over the pages ids: 1-based position of
\* the last page that is not full, 0 for None
TryRPosition(m, ids) ==
  LET hits == {i \in 1..Len(ids) : ~ActualFull(NodeOf(m, ids[i]))}
  IN IF hits = {} THEN 0 ELSE CHOOSE i \in hits : \A j \in hits : j <= i

\* try_insert up to the allocation: the write-locked path wpath from the last
\* page of the descent that is not full (from the root, with split_root,
\* when every page is full), after wpath.drain(..actual_first_nonfull)
TryWpath(m, path) ==
  LET i_first_nonfull == TryRPosition(m, path)
      split_root == i_first_nonfull = 0
      wpath == SubSeq(path, IF split_root THEN 1 ELSE i_first_nonfull, Len(path))
      actual_first_nonfull == TryRPosition(m, wpath)
  IN [split_root |-> split_root,
      wpath |-> IF actual_first_nonfull = 0 THEN wpath
                ELSE SubSeq(wpath, actual_first_nonfull, Len(wpath))]

\* the outcome of try_insert's allocation loop: the pages obtained, and
\* whether a try_alloc returned None
Allocated(m, newpages, failed, panic) ==
  [mapping |-> m, newpages |-> newpages, failed |-> failed, panic |-> panic]

\* for _ in 0..n { self.mapping.try_alloc() }: grants is the number of times
\* the kernel extends the mapping in place during this call
RECURSIVE TryAllocLoop(_, _, _, _)
\* one round of the loop: a is what try_alloc gave, used whether it took the
\* slow path
TryAllocRound(a, n, newpages, grants, used) ==
  IF a.panic # "" THEN Allocated(a.mapping, newpages, FALSE, a.panic)
  ELSE IF a.ret = None THEN Allocated(a.mapping, newpages, TRUE, "")
  ELSE TryAllocLoop(a.mapping, n - 1, Append(newpages, a.ret[1]), grants - used)

TryAllocLoop(m, n, newpages, grants) ==
  IF n = 0 THEN Allocated(m, newpages, FALSE, "")
  ELSE TryAllocRound(TryAlloc(m, grants > 0), n, newpages, grants,
                     IF m.freelist_id = NULL_PAGE THEN 1 ELSE 0)

\* for p in newpages { self.mapping.free(p); }
RECURSIVE TryFreeAll(_, _, _)
\* one round of the loop: f is the outcome of free
TryFreeRound(f, newpages, cleared) ==
  IF f.panic # "" THEN f ELSE TryFreeAll(f.mapping, Tail(newpages), cleared)

TryFreeAll(m, newpages, cleared) ==
  IF newpages = <<>> THEN Returned(m, FALSE)
  ELSE TryFreeRound(MappingFree(m, newpages[1], cleared), newpages, cleared)

\* the state of try_insert's split loop
Splitting(m, key, page_ref, panic) ==
  [mapping |-> m, key |-> key, page_ref |-> page_ref, panic |-> panic]

\* the end of a round of the split loop: s is the outcome of the split
TrySplitWritten(m, s, old_id, new, key, page_ref) ==
  IF s.panic # "" THEN Splitting(m, key, page_ref, s.panic)
  ELSE Splitting([m EXCEPT !.pages[old_id] = s.node, !.pages[new] = s.target],
                 s.ret, Some(new), "")

\* one round of the split loop: old is split into the zeroed page new
TrySplitOne(m, old, old_id, new, j, key, val, page_ref) ==
  IF ~MappingPage(m, new) THEN Splitting(m, key, page_ref, "unwrap on None page")
  ELSE IF old.kind = "inner" /\ j = 0 THEN Splitting(m, key, page_ref, "assert_ne j 0")
  ELSE IF old.kind = "leaf" /\ j # 0 THEN Splitting(m, key, page_ref, "assert_eq j 0")
  ELSE IF ~ActualFull(old) THEN Splitting(m, key, page_ref, "assert full")
  ELSE IF old.kind = "inner"
  THEN TrySplitWritten(m, InnerNodeActualSplit(old, key, page_ref[1], ZeroedInner),
                       old_id, new, key, page_ref)
  ELSE TrySplitWritten(m, LeafNodeActualSplit(old, key, val, ZeroedLeaf, new),
                       old_id, new, key, page_ref)

\* for (j, ((old, _), &new)) in wpath.drain(1..).rev().zip(newpages.iter()).enumerate()
RECURSIVE TrySplitLoop(_, _, _, _, _, _, _)
\* after one round of the split loop: s is the state the round left
TrySplitRound(s, olds, news, j, val) ==
  IF s.panic # "" THEN s
  ELSE TrySplitLoop(s.mapping, Tail(olds), Tail(news), j + 1, s.key, val, s.page_ref)

TrySplitLoop(m, olds, news, j, key, val, page_ref) ==
  IF olds = <<>> \/ news = <<>> THEN Splitting(m, key, page_ref, "")
  ELSE TrySplitRound(TrySplitOne(m, NodeOf(m, olds[1]), olds[1], news[1], j, key, val,
                                 page_ref),
                     olds, news, j, val)

\* the root written by a root split
NewRoot(key, newpagel_id, newpager_id) ==
  InnerNodeActual(1, SetAt(Zeroed(MAX), 0, key),
                  SetAt(SetAt(Zeroed(MAX + 1), 0, newpagel_id), 1, newpager_id))

\* try_insert with split_root after the split loop: the root's content moves
\* to newpagel, is split into newpager, and the root becomes an inner node
TrySplitRootWritten(m, s, page_id, newpagel_id, newpager_id) ==
  IF s.panic # "" THEN Stuck(m, s.panic)
  ELSE Returned([m EXCEPT !.pages[newpagel_id] = s.node,
                          !.pages[newpager_id] = s.target,
                          !.pages[page_id] = NewRoot(s.ret, newpagel_id, newpager_id)],
                TRUE)

TrySplitRoot(m, l, sl, val, page_id, newpagel_id, newpager_id) ==
  IF page_id # ROOT_PAGE THEN Stuck(m, "assert_eq page_id ROOT_PAGE")
  ELSE IF ~MappingPage(m, newpagel_id) \/ ~MappingPage(m, newpager_id)
  THEN Stuck(m, "unwrap on None page")
  ELSE IF ~ActualFull(l) THEN Stuck(m, "assert full")
  ELSE IF l.kind = "inner"
  THEN TrySplitRootWritten(m, InnerNodeActualSplit(l, sl.key, sl.page_ref[1], ZeroedInner),
                           page_id, newpagel_id, newpager_id)
  ELSE TrySplitRootWritten(m, LeafNodeActualSplit(l, sl.key, val, ZeroedLeaf, newpager_id),
                           page_id, newpagel_id, newpager_id)

\* try_insert without split_root after the split loop: the key (and the page
\* of the last split) is registered in the first page of wpath
TryRegistered(m, r, page_id) ==
  IF r.panic # "" THEN Stuck(m, r.panic)
  ELSE Returned([m EXCEPT !.pages[page_id] = r.node], TRUE)

TryRegister(m, page, sl, val, page_id) ==
  IF page.kind = "inner"
  THEN IF sl.page_ref = None THEN Stuck(m, "unwrap on None")
       ELSE TryRegistered(m, InnerNodeActualInsert(page, sl.key, sl.page_ref[1]), page_id)
  ELSE TryRegistered(m, LeafNodeActualInsert(page, sl.key, val), page_id)

\* try_insert after the split loop, which left sl
TrySplitDone(sl, w, newpages, val) ==
  IF sl.panic # "" THEN Stuck(sl.mapping, sl.panic)
  ELSE IF w.split_root
  THEN TrySplitRoot(sl.mapping, NodeOf(sl.mapping, w.wpath[1]), sl, val, w.wpath[1],
                    newpages[Len(newpages)], newpages[Len(newpages) - 1])
  ELSE TryRegister(sl.mapping, NodeOf(sl.mapping, w.wpath[1]), sl, val, w.wpath[1])

\* try_insert after the allocation loop succeeded
TrySplit(m, w, newpages, key, val) ==
  TrySplitDone(TrySplitLoop(m, Reverse(Tail(w.wpath)), newpages, 0, key, val, None),
               w, newpages, val)

\* try_insert after the allocation loop, which left al
TryInsertAllocated(al, w, key, val, cleared) ==
  IF al.panic # "" THEN Stuck(al.mapping, al.panic)
  ELSE IF al.failed THEN TryFreeAll(al.mapping, al.newpages, cleared)
  ELSE TrySplit(al.mapping, w, al.newpages, key, val)

\* try_insert from the allocation loop on
TryInsertLocked(m, w, key, val, grants, cleared) ==
  TryInsertAllocated(TryAllocLoop(m, Len(w.wpath) - 1 + (IF w.split_root THEN 2 ELSE 0),
                                  <<>>, grants),
                     w, key, val, cleared)

\* try_insert after the descent d
TryInsertDescended(m, d, key, val, grants, cleared) ==
  IF d.panic # "" THEN Stuck(m, d.panic)
  ELSE TryInsertLocked(m, TryWpath(m, d.path), key, val, grants, cleared)

\* MappedBTree::try_insert of btree.rs with no other thread running
TryInsert(m, key, val, grants, cleared) ==
  TryInsertDescended(m, TryDescend(m, ROOT_PAGE, key, <<>>), key, val, grants, cleared)

(* ------------------- actions of the try_insert variant ----------------- *)

\* keys of SpecTry are 0..(NTryKeys - 1)
NTryKeys == 7

\* the caller takes at most this many pages of its own with mapping.alloc()
MaxPrealloc == 2

\* the kernel extends the mapping in place at most this often in one call
MaxGrants == 2

TryKeys == 0..(NTryKeys - 1)

\* the mapping in the state: header holds header.size, the mapped size of
\* this process, header.freelist_id and whether header.alloc_lock is held
M == Mapping(header.size, header.mapped, header.freelist_id, header.alloc_lock, pages)

MNext == Mapping(header'.size, header'.mapped, header'.freelist_id, header'.alloc_lock, pages')

MappingHeader(m) ==
  [size |-> m.size, mapped |-> m.mapped, freelist_id |-> m.freelist_id,
   alloc_lock |-> m.alloc_lock]

\* what try_insert's allocation loop does in a call for key k: the pages it
\* obtains and whether a try_alloc returns None
TryAllocOutcome(m, k, grants) ==
  LET d == TryDescend(m, ROOT_PAGE, k, <<>>)
      w == TryWpath(m, d.path)
  IN IF d.panic # "" \/ d.path = <<>> THEN Allocated(m, <<>>, FALSE, d.panic)
     ELSE TryAllocLoop(m, Len(w.wpath) - 1 + (IF w.split_root THEN 2 ELSE 0), <<>>, grants)

\* ExtensibleMapping::initialize and MappedBTree::open, then the first
\* mapping.alloc(), which returns ROOT_PAGE: a zero page, the empty leaf
InitTry ==
  LET a == MappingAlloc(Mapping(2, 2, 1, FALSE, <<ZeroPage>>), TRUE)
  IN /\ header = MappingHeader(a.mapping)
     /\ pages = a.mapping.pages
     /\ fragments = <<>>
     /\ allocated = {}
     /\ last = Op("init", 0, 0, a.ret)
     /\ panicked = ""
     /\ pageLog = <<>>
     /\ fresh = 0
     /\ present = {}
     /\ nfrees = 0
     /\ threads = <<>>

\* pub fn try_insert(&self, key: u64, val: u64) -> bool for a key that is not
\* in the tree; pageLog keeps what the allocation loop of the call did
TryInsertOp ==
  /\ panicked = ""
  /\ \E k \in TryKeys \ present, grants \in 0..MaxGrants, cleared \in BOOLEAN :
       LET r == TryInsert(M, k, ValueOf(k), grants, cleared)
           al == TryAllocOutcome(M, k, grants)
       IN /\ r.mapping.size <= TreeMaxSize
          /\ header' = MappingHeader(r.mapping)
          /\ pages' = r.mapping.pages
          /\ last' = Op("try_insert", k, ValueOf(k), r.ret)
          /\ panicked' = r.panic
          /\ pageLog' = <<[newpages |-> al.newpages, failed |-> al.failed]>>
          /\ present' = IF r.panic = "" /\ r.ret = TRUE THEN present \cup {k} ELSE present
          /\ UNCHANGED <<fragments, allocated, fresh, nfrees, threads>>

\* tree.mapping.alloc() by the owner of the tree (tests::it_works)
MapAlloc ==
  /\ panicked = ""
  /\ fresh < MaxPrealloc
  /\ \E inplace \in BOOLEAN :
       LET r == MappingAlloc(M, inplace)
       IN /\ r.mapping.size <= TreeMaxSize
          /\ header' = MappingHeader(r.mapping)
          /\ pages' = r.mapping.pages
          /\ last' = Op("alloc", 0, 0, r.ret)
          /\ panicked' = r.panic
          /\ allocated' = IF r.panic = "" THEN allocated \cup {r.ret[1]} ELSE allocated
          /\ fresh' = fresh + 1
          /\ pageLog' = <<>>
          /\ UNCHANGED <<fragments, present, nfrees, threads>>

\* tree.mapping.free(id) of a page obtained by MapAlloc (tests::it_works)
MapFree ==
  /\ panicked = ""
  /\ nfrees < MaxPrealloc
  /\ \E id \in allocated, cleared \in BOOLEAN :
       LET r == MappingFree(M, id, cleared)
       IN /\ header' = MappingHeader(r.mapping)
          /\ pages' = r.mapping.pages
          /\ last' = Op("free", id, 0, None)
          /\ panicked' = r.panic
          /\ allocated' = allocated \ {id}
          /\ nfrees' = nfrees + 1
          /\ pageLog' = <<>>
          /\ UNCHANGED <<fragments, present, fresh, threads>>

NextTry == TryInsertOp \/ MapAlloc \/ MapFree

SpecTry == InitTry /\ [][NextTry]_vars

(* ------------------- properties of the try_insert variant -------------- *)

TryInsertReturned == last'.op = "try_insert"

\* a try_alloc of the call returned None
TryAllocFailed == TryInsertReturned /\ pageLog' # <<>> /\ pageLog'[1].failed

\* the pages try_insert had obtained when try_alloc returned None
Obtained == Range(pageLog'[1].newpages)

\* a later try_alloc, and a later free of id, come back
MappingUsable(m, ids) ==
  /\ \A inplace \in BOOLEAN : TryAlloc(m, inplace).panic = ""
  /\ \A id \in ids, cleared \in BOOLEAN : MappingFree(m, id, cleared).panic = ""

\* C19: when try_alloc returns None after try_insert has obtained j >= 0 new
\* pages, try_insert frees each of those pages, every free completes,
\* try_insert returns false, get of every key gives the same result as
\* before, and afterwards a try_alloc and a free complete.
C19_TryInsertRollback ==
  [][TryAllocFailed =>
       /\ panicked' = ""
       /\ last'.ret = FALSE
       /\ Obtained \subseteq FreePages'
       /\ \A k \in TryKeys : BTreeGet(MNext, k) = BTreeGet(M, k)
       /\ ~header'.alloc_lock
       /\ MappingUsable(MNext, allocated)]_vars

\* the tree was built from initialize by try_insert calls that returned true
OnlyTryInserts == panicked = "" /\ fresh = 0 /\ ~header.alloc_lock

\* C20: on a tree built only by try_insert calls of distinct keys that
\* returned true, in any order, get(k) is Some(v) for every key k inserted
\* with value v and None for every key never inserted, key 0 and the empty
\* tree included.
C20_TryInsertThenGet ==
  OnlyTryInserts =>
    \A k \in TryKeys :
      BTreeGet(M, k) = IF k \in present THEN Some(ValueOf(k)) ELSE None

(* ------------------------------ mapping properties --------------------- *)

\* the pages of the file the fragments of frags map
Mapped(frags) == {id \in 0..(MaxSize * 2) : \E i \in 1..Len(frags) :
                    frags[i].offset <= id /\ id < frags[i].offset + frags[i].size}

\* C21: for a given id every call of page(id) returns the same address: an
\* existing fragment keeps addr and offset, its size never decreases and no
\* fragment leaves the list, so the address of a mapped page never changes.
C21_StablePointers ==
  [][/\ Len(fragments') >= Len(fragments)
     /\ \A i \in 1..Len(fragments) :
          /\ fragments'[i].addr = fragments[i].addr
          /\ fragments'[i].offset = fragments[i].offset
          /\ fragments'[i].size >= fragments[i].size
     /\ \A id \in Mapped(fragments) \ {NULL_PAGE}, a \in BOOLEAN, b \in BOOLEAN :
          id < header.size =>
            Page(fragments', header'.size, id, a).res = Page(fragments, header.size, id, b).res]_vars

\* page(id) answers for a page of the part by which the first fragment was
\* extended in place, after a second fragment had to be appended
C21_Witness ==
  /\ last.op = "page" /\ last.ret # None /\ panicked = ""
  /\ Len(fragments) = 2 /\ fragments[1].size > 2
  /\ last.arg >= 2 /\ last.arg < fragments[2].offset

\* C22: the fragment list is never empty, its first fragment has offset 0,
\* each further fragment starts where the one before ends (ordered, no gap,
\* no overlap), and the fragments together map at most header.size pages.
C22_FragmentInvariant ==
  /\ fragments # <<>>
  /\ fragments[1].offset = 0
  /\ \A i \in 1..(Len(fragments) - 1) :
       /\ fragments[i].offset < fragments[i + 1].offset
       /\ fragments[i + 1].offset = fragments[i].offset + fragments[i].size
  /\ MapSize(fragments) <= header.size

\* the mapping was extended twice by a fragment elsewhere
C22_Witness ==
  /\ panicked = "" /\ Len(fragments) = 3
  /\ fragments[3].offset = fragments[2].offset + fragments[2].size
  /\ MapSize(fragments) = header.size

(* --------------------------- concurrent calls -------------------------- *)

\* SpecLatch runs NThreads threads, each of which makes at most MaxCalls
\* calls with keys of LatchKeys, on a tree that one thread has built before
\* in SpecDeep's order: the threads start when the keys in the tree are one
\* of LatchLoads (a root leaf with MAX - 1 keys, a root over two leaves, the
\* tree of all DeepKeys keys, and that tree without the keys of DeepRemoved)
NThreads == 2

MaxCalls == 1

LatchKeys == {4, 5, 9, 11, 17, 18}

LatchLoads ==
  {DeepFirst..(DeepFirst + MAX - 2), DeepFirst..(DeepFirst + MAX), 1..DeepKeys,
   (1..DeepKeys) \ DeepRemoved}

Threads == 1..NThreads

\* a thread that is not in a call: path are the pages wlock_subtree (or get)
\* holds read guards of, wpath the pages it holds write guards of, sibling
\* the sibling remove holds a write guard of, first_match the page it is
\* about to write-latch, current the page it is about to read; hist lists
\* the latches the call has acquired as <<page, depth>>
Idle ==
  [pc |-> "idle", op |-> "", key |-> 0, current |-> NULL_PAGE, path |-> <<>>,
   first_match |-> NULL_PAGE, wpath |-> <<>>, sibling |-> <<>>, hit_root |-> FALSE,
   hist |-> <<>>, ret |-> None, calls |-> 0]

ReadGuards(th) == Range(th.path)

WriteGuards(th) == Range(th.wpath) \cup Range(th.sibling)

\* the lock word of a page that reads as a node is the one the guards
\* maintain; any other lock word is never released
LockWord(id) == NodeAt(H, id).kind \in {"leaf", "inner"}

\* RwLock::read returns: no thread holds the write guard
CanRead(id) == LockWord(id) /\ \A u \in Threads : id \notin WriteGuards(threads[u])

\* RwLock::write returns: no thread holds a guard
CanWrite(id) ==
  /\ LockWord(id)
  /\ \A u \in Threads : id \notin WriteGuards(threads[u]) \cup ReadGuards(threads[u])

\* the closure the call hands to wlock_subtree
PredOf(th) == IF th.op = "insert" THEN NotFull ELSE NotHalfFull

\* fault: only the read guard of the candidate is released, the ones below
\* it are kept
CandidateKeepsBelow(h, th) ==
  LET o_first_match == RPosition(h, th.path, PredOf(th))
      i_first_match == IF o_first_match = 0 THEN 1 ELSE o_first_match
  IN IF th.path = <<>> THEN [th EXCEPT !.pc = "swap_remove index (is 0) should be < len (is 0)"]
     ELSE [th EXCEPT !.pc = "wlock", !.hit_root = (o_first_match = 0),
                     !.first_match = th.path[i_first_match],
                     !.path = SubSeq(th.path, 1, i_first_match - 1)
                              \o SubSeq(th.path, i_first_match + 1, Len(th.path))]

\* one round of the loop of wlock_subtree up to the write(): the candidate
\* is the last page of path that satisfies pred (the first page if none
\* does); its read guard and the ones below it are released
Candidate(h, th) ==
  LET o_first_match == RPosition(h, th.path, PredOf(th))
      i_first_match == IF o_first_match = 0 THEN 1 ELSE o_first_match
  IN IF th.path = <<>> THEN [th EXCEPT !.pc = "swap_remove index (is 0) should be < len (is 0)"]
     ELSE [th EXCEPT !.pc = "wlock", !.hit_root = (o_first_match = 0),
                     !.first_match = th.path[i_first_match],
                     !.path = SubSeq(th.path, 1, i_first_match - 1)]

\* the end of wlock_subtree: the write guards above the last page of wpath
\* that satisfies pred are released, and so are the read guards of path
WlockReturn(h, th) ==
  LET w == WlockDown(h, th.wpath, th.hit_root, PredOf(th))
  IN [th EXCEPT !.pc = "locked", !.wpath = w.wpath, !.hit_root = w.hit_root,
                !.path = <<>>]

\* the thread after a step that may have ended in a panic
Panics(th) == th.pc \notin {"idle", "get", "descend", "wlock", "down", "locked", "done"}

Latched(th, id, depth) == [th EXCEPT !.hist = Append(@, <<id, depth>>)]

\* the depth at which the call of th has latched page id last
DepthOf(th, id) ==
  LET at == {i \in 1..Len(th.hist) : th.hist[i][1] = id}
  IN th.hist[CHOOSE i \in at : \A j \in at : j <= i][2]

\* the state after a step of thread t that leaves the heap alone; a panic
\* ends the run
ThreadStep(t, th) ==
  /\ threads' = [threads EXCEPT ![t] = IF Panics(th) THEN [th EXCEPT !.pc = "panicked"] ELSE th]
  /\ panicked' = IF Panics(th) THEN th.pc ELSE ""
  /\ UNCHANGED <<header, pages, fragments, allocated, last, pageLog, fresh, present, nfrees>>

\* the state after thread t, last seen as th, has returned ret from its
\* call, leaving heap h
ThreadReturn(t, th, h, ret, panic) ==
  /\ header' = Header(h)
  /\ pages' = h.pages
  /\ allocated' = h.allocated
  /\ fragments' = TreeFragments(fragments, h.size)
  /\ last' = Op(threads[t].op, threads[t].key, ValueOf(threads[t].key), ret)
  /\ panicked' = panic
  /\ threads' = [threads EXCEPT ![t] = [th EXCEPT !.pc = IF panic = "" THEN "done" ELSE "panicked",
                                                   !.path = <<>>, !.wpath = <<>>,
                                                   !.sibling = <<>>, !.ret = ret]]
  /\ UNCHANGED <<pageLog, fresh, nfrees>>

\* a thread calls get, insert or remove; writers use pairwise distinct keys
\* and insert a key that is not in the tree
Call(t) ==
  /\ panicked = ""
  /\ threads[t].pc = "idle" /\ threads[t].calls < MaxCalls
  /\ (\E u \in Threads : threads[u].calls > 0) \/ present \in LatchLoads
  /\ \E op \in {"get", "insert", "remove"}, k \in LatchKeys :
       /\ op = "insert" => k \notin present
       /\ op # "get" => \A u \in Threads : threads[u].op \in {"insert", "remove"} => threads[u].key # k
       /\ ThreadStep(t, [Idle EXCEPT !.pc = IF op = "get" THEN "get" ELSE "descend",
                                     !.op = op, !.key = k, !.current = ROOT_PAGE,
                                     !.calls = threads[t].calls + 1])

\* get: one round of the loop; the guard of the page before is dropped when
\* the guard of the page at hand takes its place in _prev
GetLatch(t) ==
  LET th == threads[t]
      n == NodeAt(H, th.current)
      lock == Latched(th, th.current, Len(th.hist))
  IN /\ panicked = "" /\ th.pc = "get"
     /\ IF ~PageExists(H, th.current) THEN ThreadStep(t, [th EXCEPT !.pc = "unwrap on None page"])
        ELSE /\ CanRead(th.current)
             /\ IF n.kind = "inner"
                THEN ThreadStep(t, [lock EXCEPT !.current = InnerTraverse(n, th.key),
                                                !.path = <<th.current>>])
                ELSE ThreadReturn(t, lock, H, LeafGet(n, th.key), "") /\ present' = present

\* wlock_subtree, the descent: one round of the first loop; after the leaf
\* the first candidate is chosen
DescendLatch(t) ==
  LET th == threads[t]
      n == NodeAt(H, th.current)
      lock == [Latched(th, th.current, Len(th.path)) EXCEPT !.path = Append(@, th.current)]
  IN /\ panicked = "" /\ th.pc = "descend"
     /\ IF ~PageExists(H, th.current) THEN ThreadStep(t, [th EXCEPT !.pc = "unwrap on None page"])
        ELSE /\ CanRead(th.current)
             /\ IF n.kind = "inner"
                THEN ThreadStep(t, [lock EXCEPT !.current = InnerTraverse(n, th.key)])
                ELSE ThreadStep(t, Candidate(H, lock))

\* wlock_subtree, the second loop from the write() on: the candidate is the
\* anchor if it satisfies pred under the write guard or stands for the root;
\* otherwise its guard is dropped and the next candidate is chosen
WlockLatch(t) ==
  LET th == threads[t]
      id == th.first_match
      write == [Latched(th, id, Len(th.path)) EXCEPT !.wpath = <<id>>, !.pc = "down"]
  IN /\ panicked = "" /\ th.pc = "wlock"
     /\ IF ~PageExists(H, id) THEN ThreadStep(t, [th EXCEPT !.pc = "unwrap on None page"])
        ELSE /\ CanWrite(id)
             /\ IF th.hit_root \/ Pred(PredOf(th), NodeAt(H, id))
                THEN IF NodeAt(H, id).kind = "leaf" THEN ThreadStep(t, WlockReturn(H, write))
                     ELSE ThreadStep(t, write)
                ELSE ThreadStep(t, Candidate(H, Latched(th, id, Len(th.path))))

\* wlock_subtree, the third loop: the child on the way to the key is
\* write-latched under the write guard of its parent; with the leaf the
\* function returns
DownLatch(t) ==
  LET th == threads[t]
      next_id == InnerTraverse(NodeAt(H, th.wpath[Len(th.wpath)]), th.key)
      next == [Latched(th, next_id, Len(th.path) + Len(th.wpath)) EXCEPT !.wpath = Append(@, next_id)]
  IN /\ panicked = "" /\ th.pc = "down"
     /\ IF ~PageExists(H, next_id) THEN ThreadStep(t, [th EXCEPT !.pc = "unwrap on None page"])
        ELSE /\ CanWrite(next_id)
             /\ IF NodeAt(H, next_id).kind = "leaf" THEN ThreadStep(t, WlockReturn(H, next))
                ELSE ThreadStep(t, next)

\* what wlock_subtree has returned to thread th
Wlocked(th) == [panic |-> "", wpath |-> th.wpath, hit_root |-> th.hit_root]

\* the write() calls of insert after wlock_subtree are on pages that alloc
\* has just returned: they wait for the guards other threads hold on them
FreshUnlatched(h) ==
  \A id \in h.allocated \ allocated, u \in Threads :
    id \notin WriteGuards(threads[u]) \cup ReadGuards(threads[u])

\* insert after wlock_subtree, with its allocs and splits
InsertUnderLatches(t, r) ==
  /\ r.heap.size <= TreeMaxSize
  /\ FreshUnlatched(r.heap)
  /\ ThreadReturn(t, threads[t], r.heap, None, r.panic)
  /\ present' = IF r.panic = "" THEN present \cup {threads[t].key} ELSE present

InsertLatched(t) ==
  /\ panicked = "" /\ threads[t].pc = "locked" /\ threads[t].op = "insert"
  /\ \E keeps \in BOOLEAN :
       InsertUnderLatches(t, InsertLocked(H, Wlocked(threads[t]), threads[t].key,
                                          ValueOf(threads[t].key), keeps))

\* the sibling remove write-latches next, NULL_PAGE if it needs none (any
\* more): the left one, and the right one if the left one is missing or
\* half full
NextSibling(h, th) ==
  LET page == NodeAt(h, th.wpath[Len(th.wpath)])
      parent == NodeAt(h, th.wpath[Len(th.wpath) - 1])
      slot == InnerFindSlot(parent.keys, th.key)
      hasl == slot >= 1 /\ slot - 1 < Len(parent.content)
      hasr == slot + 1 < Len(parent.content)
  IN IF ~BinarySearch(page.keys, th.key).ok \/ Count(page) = 1 \/ ~HalfFull(page)
     THEN NULL_PAGE
     ELSE IF Len(th.wpath) < 2 \/ parent.kind # "inner" THEN NULL_PAGE
     ELSE IF th.sibling = <<>> /\ hasl THEN At(parent.content, slot - 1)
     ELSE IF ~hasr \/ th.sibling = <<At(parent.content, slot + 1)>> THEN NULL_PAGE
     ELSE IF th.sibling = <<>> \/ HalfFull(NodeAt(h, th.sibling[1]))
     THEN At(parent.content, slot + 1)
     ELSE NULL_PAGE

\* remove, the write() on a sibling of the leaf
SiblingLatch(t) ==
  LET th == threads[t]
      id == NextSibling(H, th)
  IN /\ panicked = "" /\ th.pc = "locked" /\ th.op = "remove"
     /\ PageExists(H, id)
     /\ CanWrite(id)
     /\ ThreadStep(t, [Latched(th, id, DepthOf(th, th.wpath[Len(th.wpath)])) EXCEPT !.sibling = <<id>>])

\* remove after wlock_subtree, once the sibling it needs is write-latched
RemoveUnderLatches(t, r) ==
  /\ ThreadReturn(t, threads[t], r.heap, r.ret, r.panic)
  /\ present' = present \ {threads[t].key}

RemoveLatched(t) ==
  /\ panicked = "" /\ threads[t].pc = "locked" /\ threads[t].op = "remove"
  /\ LET id == NextSibling(H, threads[t]) IN id = NULL_PAGE \/ ~PageExists(H, id)
  /\ \E cleared \in BOOLEAN, keeps \in BOOLEAN :
       RemoveUnderLatches(t, RemoveLocked(H, Wlocked(threads[t]), threads[t].key, cleared, keeps))

\* the tree of SpecLatch is built by one thread before the others start
Load ==
  /\ \A t \in Threads : threads[t].calls = 0
  /\ InsertOutward

\* and may then remove the keys of DeepRemoved in ascending order
Unload ==
  /\ \A t \in Threads : threads[t].calls = 0
  /\ panicked = ""
  /\ 1 \in present
  /\ \E k \in DeepRemoved \cap present, cleared \in BOOLEAN, keeps \in BOOLEAN :
       /\ \A j \in DeepRemoved \cap present : k <= j
       /\ RemoveStep(k, cleared, keeps)

InitLatch ==
  LET a == AllocTracked(Heap(2, 1, <<ZeroPage>>, {}))
  IN /\ header = Header(a.heap)
     /\ pages = a.heap.pages
     /\ fragments = <<Fragment(MapBasePage * PAGESZ, 0, 2)>>
     /\ allocated = a.heap.allocated
     /\ last = Op("init", 0, 0, Some(a.ret))
     /\ panicked = ""
     /\ pageLog = <<>>
     /\ fresh = -1
     /\ present = {}
     /\ nfrees = 0
     /\ threads = [t \in Threads |-> Idle]

NextLatch ==
  \/ Load
  \/ Unload
  \/ \E t \in Threads : Call(t)
  \/ \E t \in Threads : GetLatch(t)
  \/ \E t \in Threads : DescendLatch(t)
  \/ \E t \in Threads : WlockLatch(t)
  \/ \E t \in Threads : DownLatch(t)
  \/ \E t \in Threads : InsertLatched(t)
  \/ \E t \in Threads : SiblingLatch(t)
  \/ \E t \in Threads : RemoveLatched(t)

SpecLatch == InitLatch /\ [][NextLatch]_vars

(* ------------------------ concurrency properties ----------------------- *)

\* thread t write-latches its candidate in this step and finds that the
\* candidate does not satisfy the predicate any more
RecheckFails(t) ==
  /\ threads[t].pc = "wlock"
  /\ Len(threads'[t].hist) > Len(threads[t].hist)
  /\ ~threads[t].hit_root
  /\ ~Pred(PredOf(threads[t]), NodeAt(H, threads[t].first_match))

\* C23: when the candidate anchor of wlock_subtree fails the predicate once
\* it is write-latched, the call does not panic but chooses the next
\* candidate to write-latch, also when the failed candidate was the root.
C23_AnchorRecheck ==
  [][\A t \in Threads :
       RecheckFails(t) => panicked' = "" /\ threads'[t].pc = "wlock"]_vars

InCall(t) == threads[t].pc \in {"get", "descend", "wlock", "down", "locked"}

\* the page thread t latches next: NULL_PAGE if its next step takes no latch
\* on a page of the tree
NextLatched(t) ==
  LET th == threads[t]
  IN IF th.pc \in {"get", "descend"} THEN th.current
     ELSE IF th.pc = "wlock" THEN th.first_match
     ELSE IF th.pc = "down" THEN InnerTraverse(NodeAt(H, th.wpath[Len(th.wpath)]), th.key)
     ELSE IF th.pc = "locked" /\ th.op = "remove" THEN NextSibling(H, th)
     ELSE NULL_PAGE

\* thread t is in read() or write() and the call does not return now
Blocked(t) ==
  /\ InCall(t)
  /\ PageExists(H, NextLatched(t))
  /\ IF threads[t].pc \in {"get", "descend"} THEN ~CanRead(NextLatched(t))
     ELSE ~CanWrite(NextLatched(t))

\* C24: as long as no call has panicked, the threads that are in a call are
\* never all blocked on page latches: one of them can take its next latch
\* or finish.
C24_DeadlockFreedom ==
  (panicked = "" /\ \E t \in Threads : InCall(t)) => \E t \in Threads : InCall(t) /\ ~Blocked(t)

\* the pages thread th holds a guard of
Guards(th) == ReadGuards(th) \cup WriteGuards(th)

\* thread t acquires a latch in this step: the last entry of its hist
Acquires(t) == Len(threads'[t].hist) > Len(threads[t].hist)

Acquired(t) == threads'[t].hist[Len(threads'[t].hist)]

\* id is a sibling of the leaf remove has write-latched under the parent
SiblingOfLeaf(th, id) ==
  /\ th.pc = "locked" /\ th.op = "remove" /\ Len(th.wpath) >= 2
  /\ id \in Range(NodeAt(H, th.wpath[Len(th.wpath) - 1]).content) \ Range(th.wpath)

Steps(t) == threads'[t] # threads[t]

\* the pages that are tree pages before and after the step and whose body
\* the step changes
Modified == {id \in allocated \cap allocated' : pages'[id] # pages[id]}

\* C26: a thread changes the body of a page only while it holds the write
\* latch of the page, and no thread latches (visits) a page that was passed
\* to free and has not been allocated again.
C26_LatchCoverage ==
  [][\A t \in Threads :
       /\ Steps(t) => Modified \subseteq WriteGuards(threads[t])
       /\ Acquires(t) => Acquired(t)[1] \in allocated]_vars

\* every call made so far has returned
AllReturned ==
  /\ panicked = ""
  /\ \A t \in Threads : threads[t].pc \in {"idle", "done"}
  /\ \E t \in Threads : threads[t].pc = "done"

\* the threads started on the tree of an insert-only load
LoadedByInserts == 1 \in present => DeepRemoved \ LatchKeys \subseteq present

\* C27: once all concurrent calls (writers on pairwise distinct keys) have
\* returned, get observes exactly the keys loaded or inserted and not
\* removed, each with its value, which is what the calls yield in any
\* sequential order; and every concurrent get(k) has returned None or the
\* value inserted for k.
C27_ConcurrentOutcome ==
  /\ (AllReturned /\ LoadedByInserts) =>
       \A k \in 1..(DeepKeys + 2) :
         Get(H, k) = IF k \in present THEN Some(ValueOf(k)) ELSE None
  /\ \A t \in Threads :
       (threads[t].op = "get" /\ threads[t].pc = "done") =>
         threads[t].ret \in {None, Some(ValueOf(threads[t].key))}

\* wpath is a parent-child chain on the way to key that ends in a leaf
IsChain(h, wpath, key) ==
  /\ wpath # <<>>
  /\ NodeAt(h, wpath[Len(wpath)]).kind = "leaf"
  /\ \A i \in 1..(Len(wpath) - 1) :
       /\ NodeAt(h, wpath[i]).kind = "inner"
       /\ InnerTraverse(NodeAt(h, wpath[i]), key) = wpath[i + 1]

\* C28: when wlock_subtree has returned, the write-latched pages are one
\* parent-child chain from the anchor to the leaf of the key, the anchor
\* satisfies the predicate unless the flag is returned true, every page
\* below the anchor fails it, the flag is true only if the chain starts at
\* the root and no page of it satisfies the predicate, and the thread holds
\* no latch on a page above the anchor.
C28_AnchorMinimality ==
  \A t \in Threads :
    threads[t].pc = "locked" =>
      LET th == threads[t]
          sat == {i \in 1..Len(th.wpath) : Pred(PredOf(th), NodeAt(H, th.wpath[i]))}
      IN /\ IsChain(H, th.wpath, th.key)
         /\ th.hit_root \/ 1 \in sat
         /\ sat \subseteq {1}
         /\ th.hit_root => th.wpath[1] = ROOT_PAGE /\ sat = {}
         /\ ReadGuards(th) = {}
         /\ WriteGuards(th) = Range(th.wpath) \cup Range(th.sibling)
         /\ Range(th.sibling) \cap Range(th.wpath) = {}

\* wlock_subtree has returned a chain that starts below the root after it
\* had write-latched the root: the root's guard was released at the end
C28_Witness ==
  \E t \in Threads :
    /\ threads[t].pc = "locked" /\ panicked = ""
    /\ Len(threads[t].hist) >= 4
    /\ threads[t].hist[3] = <<ROOT_PAGE, 0>>
    /\ ROOT_PAGE \notin Range(threads[t].wpath)

(* ------------------------------ node splits ---------------------------- *)

\* SpecSplit applies split_into to a full node in page 1 with page 2 as the
\* target: the node's keys are MAX keys of SplitKeys, the new key is another
\* key of SplitKeys
SplitSpare == 3

SplitKeys == 1..(MAX + SplitSpare)

SplitPage == ROOT_PAGE

SplitTarget == ROOT_PAGE + 1

\* the page id that comes with the key from the split of a child, and the
\* children the inner node has before
SplitPageRef == ROOT_PAGE + 2

SplitChild(i) == 10 + i

RECURSIVE SortedSeq(_)
SortedSeq(S) ==
  IF S = {} THEN <<>>
  ELSE LET m == CHOOSE x \in S : \A y \in S : x <= y IN <<m>> \o SortedSeq(S \ {m})

\* a full leaf with the keys ks, and a full inner node with the separators ks
FullLeaf(ks, next) ==
  LeafNode(SortedSeq(ks), [i \in 1..MAX |-> ValueOf(SortedSeq(ks)[i])], next)

FullInner(ks) == InnerNode(SortedSeq(ks), [i \in 1..(MAX + 1) |-> SplitChild(i)])

InitSplit ==
  /\ \E ks \in SUBSET SplitKeys, next \in {NULL_PAGE, SplitPageRef}, inner \in BOOLEAN :
       /\ Cardinality(ks) = MAX
       /\ inner => next = NULL_PAGE
       /\ pages = <<IF inner THEN FullInner(ks) ELSE FullLeaf(ks, next), ZeroPage, ZeroPage>>
       /\ present = ks
  /\ header = [size |-> SplitPageRef + 1, freelist_id |-> NULL_PAGE]
  /\ fragments = <<Fragment(MapBasePage * PAGESZ, 0, SplitPageRef + 1)>>
  /\ allocated = {SplitPage, SplitTarget, SplitPageRef}
  /\ last = Op("init", 0, 0, None)
  /\ panicked = ""
  /\ pageLog = <<>>
  /\ fresh = -1
  /\ nfrees = 0
  /\ threads = <<>>

\* the state split_into leaves
SplitStep(newkey, r) ==
  /\ header' = Header(r.heap)
  /\ pages' = r.heap.pages
  /\ last' = Op("split_into", newkey, ValueOf(newkey), Some(r.key))
  /\ panicked' = r.panic
  /\ present' = present \cup {newkey}
  /\ UNCHANGED <<fragments, allocated, pageLog, fresh, nfrees, threads>>

\* split_into on the full leaf for insert(newkey, ValueOf(newkey))
SplitLeaf ==
  /\ last.op = "init" /\ NodeAt(H, SplitPage).kind = "leaf"
  /\ \E newkey \in SplitKeys \ present :
       SplitStep(newkey, SplitInto(H, newkey, ValueOf(newkey), None, SplitPage,
                                   SplitTarget, {SplitPage}))

\* split_into on the full inner node with the key and the page that the
\* split of one of its children has handed up
SplitInner ==
  /\ last.op = "init" /\ NodeAt(H, SplitPage).kind = "inner"
  /\ \E newkey \in SplitKeys \ present :
       SplitStep(newkey, SplitInto(H, newkey, ValueOf(newkey), Some(SplitPageRef),
                                   SplitPage, SplitTarget, {SplitPage}))

NextSplit == SplitLeaf \/ SplitInner

SpecSplit == InitSplit /\ [][NextSplit]_vars

\* the step splits the leaf in SplitPage
LeafSplits == last'.op = "split_into" /\ NodeAt(H, SplitPage).kind = "leaf"

\* C29: the split of a full leaf with a new key leaves a left and a right
\* leaf whose keys together are the old keys and the new key in ascending
\* order, each with its value; the counts are (HALF + 1, HALF + 1) when the
\* new key is below the middle key and (HALF, HALF + 2) otherwise; the key
\* handed to the parent is the first key of the right leaf and greater than
\* every key of the left leaf; right.next is the old next pointer and
\* left.next is the page of the right leaf.
C29_LeafSplit ==
  [][LeafSplits =>
       LET old == NodeAt(H, SplitPage)
           left == NodeAt(HNext, SplitPage)
           right == NodeAt(HNext, SplitTarget)
           keys == left.keys \o right.keys
           data == left.content \o right.content
       IN /\ panicked' = ""
          /\ left.kind = "leaf" /\ right.kind = "leaf"
          /\ keys = SortedSeq(Range(old.keys) \cup {last'.arg})
          /\ Len(data) = Len(keys)
          /\ \A i \in 1..Len(keys) : data[i] = ValueOf(keys[i])
          /\ <<Count(left), Count(right)>> =
               IF last'.arg < At(old.keys, MAX \div 2) THEN <<HALF + 1, HALF + 1>>
               ELSE <<HALF, HALF + 2>>
          /\ last'.ret = Some(right.keys[1])
          /\ \A i \in 1..Count(left) : left.keys[i] < right.keys[1]
          /\ right.next = old.next
          /\ left.next = SplitTarget]_vars

\* a leaf has been split with the new key in the right leaf, and the old
\* leaf had a successor
C29_Witness ==
  /\ last.op = "split_into" /\ panicked = ""
  /\ NodeAt(H, SplitPage).kind = "leaf"
  /\ last.arg \in Range(NodeAt(H, SplitTarget).keys)
  /\ Count(NodeAt(H, SplitPage)) = HALF
  /\ NodeAt(H, SplitTarget).next = SplitPageRef

\* the step splits the inner node in SplitPage
InnerSplits == last'.op = "split_into" /\ NodeAt(H, SplitPage).kind = "inner"

\* C30: the split of a full inner node with the key and page handed up from
\* the split of a child completes without failure; the keys of the left
\* node, the key handed up and the keys of the right node are the old keys
\* and the new key in ascending order, the children of left and right are
\* the old children with the new page right of the child that was split,
\* and left.count + right.count = MAX.
C30_InnerSplit ==
  [][InnerSplits =>
       LET old == NodeAt(H, SplitPage)
           left == NodeAt(HNext, SplitPage)
           right == NodeAt(HNext, SplitTarget)
       IN /\ panicked' = ""
          /\ left.kind = "inner" /\ right.kind = "inner"
          /\ left.keys \o last'.ret \o right.keys = SortedSeq(Range(old.keys) \cup {last'.arg})
          /\ left.content \o right.content =
               InsertAt(old.content, InnerFindSlot(old.keys, last'.arg) + 1, SplitPageRef)
          /\ Count(left) + Count(right) = MAX]_vars

(* --------------------------- borrow and merge -------------------------- *)

\* what remove(key) on heap h meets below the anchor: the page at hand (the
\* leaf of wpath), its parent, the slot of the page in the parent and the
\* sibling remove chooses
AtLeaf(h, key) ==
  LET w == WlockSubtree(h, key, NotHalfFull)
      n == Len(w.wpath)
      parent == NodeAt(h, w.wpath[n - 1])
      slot == InnerFindSlot(parent.keys, key)
  IN [page_id |-> w.wpath[n], parent_id |-> w.wpath[n - 1], slot |-> slot,
      sib |-> ChooseSibling(h, parent, slot, Range(w.wpath))]

\* remove(key) on heap h reaches a leaf below the anchor that holds key and
\* exactly HALF entries
HalfLeaf(h, key) ==
  /\ WlockSubtree(h, key, NotHalfFull).panic = ""
  /\ Len(WlockSubtree(h, key, NotHalfFull).wpath) >= 2
  /\ HalfFull(NodeAt(h, AtLeaf(h, key).page_id))
  /\ BinarySearch(NodeAt(h, AtLeaf(h, key).page_id).keys, key).ok
  /\ AtLeaf(h, key).sib.panic = ""

\* ... and the sibling chosen has more than HALF entries
LeafBorrows(h, key) ==
  /\ HalfLeaf(h, key)
  /\ Count(NodeAt(h, AtLeaf(h, key).sib.id)) > HALF

\* keys and data of a leaf as a set of entries
EntriesOf(l) == {<<l.keys[i], l.content[i]>> : i \in 1..Count(l)}

\* C31: when remove(k) reaches a non-anchor leaf with exactly HALF entries
\* that contains k and the chosen sibling has more than HALF entries, remove
\* returns Some(v) without a panic; afterwards the leaf again holds HALF
\* entries, the sibling one entry fewer, the entries of the two leaves
\* together are the old entries without k, the parent separator between the
\* two leaves is the first key of the right-hand leaf, no other parent key
\* or child changes and no page is freed.
C31_LeafBorrow ==
  [][RemoveReturned /\ LeafBorrows(H, last'.arg) =>
       LET a == AtLeaf(H, last'.arg)
           sep == IF a.sib.is_right THEN a.slot ELSE a.slot - 1
           right == IF a.sib.is_right THEN a.sib.id ELSE a.page_id
       IN /\ panicked' = ""
          /\ last'.ret = Get(H, last'.arg) /\ last'.ret # None
          /\ Count(NodeAt(HNext, a.page_id)) = HALF
          /\ Count(NodeAt(HNext, a.sib.id)) = Count(NodeAt(H, a.sib.id)) - 1
          /\ EntriesOf(NodeAt(HNext, a.page_id)) \cup EntriesOf(NodeAt(HNext, a.sib.id))
               = (EntriesOf(NodeAt(H, a.page_id)) \cup EntriesOf(NodeAt(H, a.sib.id)))
                   \ {<<last'.arg, Get(H, last'.arg)[1]>>}
          /\ At(NodeAt(HNext, a.parent_id).keys, sep) = NodeAt(HNext, right).keys[1]
          /\ NodeAt(HNext, a.parent_id).content = NodeAt(H, a.parent_id).content
          /\ \A i \in 0..(Count(NodeAt(H, a.parent_id)) - 1) :
               i # sep => At(NodeAt(HNext, a.parent_id).keys, i)
                            = At(NodeAt(H, a.parent_id).keys, i)
          /\ Count(NodeAt(HNext, a.parent_id)) = Count(NodeAt(H, a.parent_id))
          /\ allocated' = allocated
          /\ header' = header]_vars

(* ------------------------- trees of three levels ----------------------- *)

\* The remove loop above the leaves works on inner nodes below the root.
\* SpecTall starts from a root with one separator over two inner nodes over
\* leaves, the free list holding the pages left over, and applies remove.

\* header.size of these trees
TallSize == 2 * MaxSize

\* the numbers of separators of the two inner nodes
TallShapes ==
  {<<HALF, HALF>>, <<HALF, HALF + 1>>, <<HALF + 1, HALF>>, <<HALF, HALF + 2>>,
   <<HALF + 2, HALF>>}

TallLeft == ROOT_PAGE + 1

TallRight == ROOT_PAGE + 2

\* the page of the j-th leaf (from 1) and the key below its first key
TallLeafPage(j) == ROOT_PAGE + 2 + j

TallBase(j) == (j - 1) * (HALF + 1)

\* the j-th of n leaves: HALF keys, one more if j = fat
TallLeaf(j, n, fat) ==
  LET keys == [i \in 1..(IF j = fat THEN HALF + 1 ELSE HALF) |-> TallBase(j) + i]
  IN LeafNode(keys, [i \in 1..Len(keys) |-> ValueOf(keys[i])],
              IF j = n THEN NULL_PAGE ELSE TallLeafPage(j + 1))

\* the inner node over the leaves first..(first + count)
TallInner(first, count) ==
  InnerNode([i \in 1..count |-> TallBase(first + i) + 1],
            [i \in 1..(count + 1) |-> TallLeafPage(first + i - 1)])

\* free(id) for each id of ids in turn
RECURSIVE FreeEach(_, _)
FreeEach(h, ids) ==
  IF ids = <<>> THEN h ELSE FreeEach(FreeTracked(h, Head(ids), TRUE), Tail(ids))

\* the heap holding the tree of shape <<a, b>>
TallTree(a, b, fat) ==
  LET n == a + b + 2
      used == ROOT_PAGE + 2 + n
      pgs == [id \in 1..(TallSize - 1) |->
                IF id = ROOT_PAGE
                THEN InnerNode(<<TallBase(a + 2) + 1>>, <<TallLeft, TallRight>>)
                ELSE IF id = TallLeft THEN TallInner(1, a)
                ELSE IF id = TallRight THEN TallInner(a + 2, b)
                ELSE IF id <= used THEN TallLeaf(id - (ROOT_PAGE + 2), n, fat)
                ELSE ZeroPage]
  IN FreeEach(Heap(TallSize, NULL_PAGE, pgs, 1..(TallSize - 1)),
              [i \in 1..(TallSize - 1 - used) |-> used + i])

InitTall ==
  /\ \E s \in TallShapes : \E fat \in 0..(s[1] + s[2] + 2) :
       LET h == TallTree(s[1], s[2], fat)
       IN /\ header = Header(h)
          /\ pages = h.pages
          /\ allocated = h.allocated
          /\ present = UNION {Range(NodeAt(h, TallLeafPage(j)).keys) :
                                j \in 1..(s[1] + s[2] + 2)}
  /\ fragments = <<Fragment(MapBasePage * PAGESZ, 0, TallSize)>>
  /\ last = Op("init", 0, 0, None)
  /\ panicked = ""
  /\ pageLog = <<>>
  /\ fresh = -1
  /\ nfrees = 0
  /\ threads = <<>>

\* remove of one key from the tree
RemoveTall ==
  /\ last.op = "init"
  /\ \E k \in present, cleared \in BOOLEAN, keeps \in BOOLEAN :
       RemoveStep(k, cleared, keeps)

\* p.borrow(&mut *parent, slot, s, is_right) on TallLeft or TallRight, the
\* node being half full and its sibling not
BorrowTall ==
  /\ last.op = "init"
  /\ \E slot \in 0..1 :
       LET page_id == At(Root(H).content, slot)
           sibling_id == At(Root(H).content, 1 - slot)
           b == InnerBorrow(NodeAt(H, page_id), Root(H), slot, NodeAt(H, sibling_id),
                            slot = 0)
       IN /\ HalfFull(NodeAt(H, page_id)) /\ ~HalfFull(NodeAt(H, sibling_id))
          /\ pages' = IF b.panic # "" THEN pages
                      ELSE [pages EXCEPT ![page_id] = b.node, ![sibling_id] = b.sibling,
                                         ![ROOT_PAGE] = b.parent]
          /\ panicked' = b.panic
          /\ last' = Op("borrow", slot, 0, None)
  /\ UNCHANGED <<header, fragments, allocated, pageLog, fresh, present, nfrees, threads>>

NextTall == RemoveTall \/ BorrowTall

SpecTall == InitTall /\ [][NextTall]_vars

\* remove(key) on heap h merges two leaves and then reaches their parent, an
\* inner node below the anchor with exactly HALF keys whose chosen sibling
\* has more than HALF keys
InnerBorrows(h, key) ==
  LET w == WlockSubtree(h, key, NotHalfFull)
      n == Len(w.wpath)
      above == NodeAt(h, w.wpath[n - 2])
      sib == ChooseSibling(h, above, InnerFindSlot(above.keys, key), Range(w.wpath))
  IN /\ HalfLeaf(h, key)
     /\ HalfFull(NodeAt(h, AtLeaf(h, key).sib.id))
     /\ n >= 3
     /\ HalfFull(NodeAt(h, w.wpath[n - 1]))
     /\ sib.panic = ""
     /\ Count(NodeAt(h, sib.id)) > HALF

\* the separator rule at every inner node of the tree
SeparatorsHold(h) ==
  \A id \in TreePages(h) :
     IsNode(h, id) /\ NodeAt(h, id).kind = "inner" => Separates(h, NodeAt(h, id))

LeafMerges(h, key) ==
  /\ HalfLeaf(h, key)
  /\ HalfFull(NodeAt(h, AtLeaf(h, key).sib.id))

Inserter ==
  IF \E t \in Threads : threads[t].pc = "locked" /\ threads'[t].pc # "locked"
  THEN CHOOSE t \in Threads : threads[t].pc = "locked" /\ threads'[t].pc # "locked"
  ELSE 0

\* an insert returns (or panics) in this step
InsertReturns ==
  IF Inserter # 0 THEN threads[Inserter].op = "insert"
  ELSE last'.op = "insert" /\ last' # last

\* what wlock_subtree has returned to the insert that returns in this step
InsertWlocked ==
  IF Inserter # 0 THEN Wlocked(threads[Inserter])
  ELSE WlockSubtree(H, last'.arg, NotFull)

\* the pages the insert has allocated
NewPages == allocated' \ allocated

\* C34: inserting into a leaf with count < MAX allocates no page and changes
\* only that leaf; a node is split only if its count is MAX at the time of
\* the insert; insert allocates exactly one page per node of wpath below the
\* anchor plus two more when the root is split, allocates them holding the
\* write latches of wpath, and uses every allocated page.
C34_InsertFootprint ==
  [][InsertReturns /\ InsertWlocked.panic = "" =>
       LET w == InsertWlocked
           leaf == w.wpath[Len(w.wpath)]
       IN /\ ~Full(NodeAt(H, leaf)) =>
               /\ panicked' = ""
               /\ NewPages = {}
               /\ header' = header
               /\ \A id \in DOMAIN pages : id # leaf => pages'[id] = pages[id]
               /\ EntriesOf(NodeAt(HNext, leaf)) =
                    EntriesOf(NodeAt(H, leaf)) \cup {<<last'.arg, last'.val>>}
          /\ \A id \in TreePages(H) :
               IsNode(H, id) /\ IsNode(HNext, id)
                 /\ Count(NodeAt(HNext, id)) < Count(NodeAt(H, id)) => Full(NodeAt(H, id))
          /\ Cardinality(NewPages) = Len(w.wpath) - 1 + (IF w.hit_root THEN 2 ELSE 0)
          /\ Inserter # 0 => Range(w.wpath) \subseteq WriteGuards(threads[Inserter])
          /\ NewPages \subseteq TreePages(HNext)]_vars

(* ------------------------ the slow path of alloc ----------------------- *)

\* SpecSlow lets the file of SpecHeap grow to twice MaxSize pages, with
\* fewer calls of free, so that the slow path builds a free list of several
\* pages
SlowFrees == 2

SlowAlloc == HeapAllocUpTo(2 * MaxSize)

SlowFree == nfrees < SlowFrees /\ HeapFree

NextSlow == SlowAlloc \/ SlowFree

SpecSlow == InitHeap /\ [][NextSlow]_vars

\* the free-list chain after the step, head first
ChainNext == ChainFrom(pages', header'.size, header'.freelist_id, <<>>)

\* the entries of the j-th chain page the step has built (the head is the
\* last one built)
Built(j) == ChainNext.ids[Len(ChainNext.ids) + 1 - j]

BuiltEntries(j) == AsFreelist(pages'[Built(j)]).entries

\* the number of ids listed by the chain pages built before the j-th
RECURSIVE CoveredBefore(_)
CoveredBefore(j) == IF j <= 1 THEN 0 ELSE CoveredBefore(j - 1) + Len(BuiltEntries(j - 1))

\* C35: when alloc finds the free list empty with header.size = S it returns
\* S, sets size to 2S and leaves each of the pages S+1 .. 2S-1 on the free
\* list exactly once: chain pages are taken from 2S-1 downwards, each lists
\* min(remaining, FREELIST_E_PER_PAGE) consecutive ids ascending from the
\* lowest id not yet covered, each chain page's next is the one built before
\* it (NULL for the first), the loop ends with first_free = last_free, and
\* the last page built is header.freelist_id; for S = 2 the free list is
\* page 3 alone with n_entries 0.
C35_SlowPathFreeList ==
  [][AllocStep /\ header.freelist_id = NULL_PAGE =>
       LET S == header.size
           m == Len(ChainNext.ids)
       IN /\ panicked' = ""
          /\ Ret = S
          /\ header'.size = 2 * S
          /\ ChainNext.ok
          /\ \A id \in (S + 1)..(2 * S - 1) :
               Cardinality({j \in 1..m : Built(j) = id})
                 + Cardinality({<<j, i>> \in (1..m) \X (1..FREELIST_E_PER_PAGE) :
                                  i <= Len(BuiltEntries(j)) /\ BuiltEntries(j)[i] = id}) = 1
          /\ \A j \in 1..m :
               /\ Built(j) = 2 * S - j
               /\ AsFreelist(pages'[Built(j)]).next = IF j = 1 THEN NULL_PAGE ELSE Built(j - 1)
               /\ BuiltEntries(j) =
                    [i \in 1..Min(2 * S - j - (S + 1 + CoveredBefore(j)), FREELIST_E_PER_PAGE)
                       |-> S + CoveredBefore(j) + i]
          /\ S + 1 + CoveredBefore(m + 1) = 2 * S - m
          /\ m >= 1 /\ header'.freelist_id = Built(m)
          /\ \A id \in 1..(S - 1) : pages'[id] = pages[id]
          /\ S = 2 => /\ header'.freelist_id = 3
                      /\ pages'[3] = FreelistPage(<<>>, NULL_PAGE)]_vars

\* the slow path has just built a free list of three pages, two of them full
C35_Witness ==
  /\ last = Op("alloc", 0, 0, Some(MaxSize)) /\ panicked = ""
  /\ header.size = 2 * MaxSize
  /\ Len(Chain.ids) >= 3
  /\ Len(Entries(Chain.ids[Len(Chain.ids)])) = FREELIST_E_PER_PAGE
  /\ Entries(header.freelist_id) = <<>>

(* ------------------------------ reuse of pages ------------------------- *)

\* free(id) appends id to the head page: a head exists and has room
FreeAppends(h) ==
  /\ h.freelist_id # NULL_PAGE
  /\ Len(AsFreelist(h.pages[h.freelist_id]).entries) < FREELIST_E_PER_PAGE

\* C36: in every reachable heap state and for every allocated id, free(id)
\* immediately followed by alloc() returns id and leaves header.size as it
\* is, whether free appended id to the head free-list page (a head with
\* n_entries < FREELIST_E_PER_PAGE exists) or made page id the new head with
\* n_entries = 0 and next = the old freelist_id (free list empty or head
\* full).
C36_LifoReuse ==
  /\ [](panicked = "" =>
          \A id \in allocated, cleared \in BOOLEAN :
             LET f == Free(H, id, cleared)
                 a == Alloc(f)
             IN /\ ~f.panic /\ ~a.heap.panic
                /\ a.ret = id
                /\ a.heap.size = header.size
                /\ IF FreeAppends(H)
                   THEN /\ f.freelist_id = header.freelist_id
                        /\ AsFreelist(f.pages[f.freelist_id]).entries
                             = Append(Entries(header.freelist_id), id)
                   ELSE /\ f.freelist_id = id
                        /\ f.pages[id] = FreelistPage(<<>>, header.freelist_id))
  /\ [][last.op = "free" /\ AllocStep =>
          /\ panicked' = ""
          /\ Ret = last.arg
          /\ header'.size = header.size]_vars

\* free has just made the freed page the new head in front of a full head
\* page, other pages are still allocated, and alloc would return that page
C36_Witness ==
  /\ last.op = "free" /\ panicked = ""
  /\ header.freelist_id = last.arg
  /\ Entries(last.arg) = <<>>
  /\ AsFreelist(pages[last.arg]).next # NULL_PAGE
  /\ Len(Entries(AsFreelist(pages[last.arg]).next)) = FREELIST_E_PER_PAGE
  /\ allocated # {}
  /\ Alloc(H).ret = last.arg

(* ----------------------- concurrent alloc and free --------------------- *)

\* SpecLocks runs the threads of Threads on one MappedHeap; each makes up to
\* HeapCalls calls of alloc or of free with an id it has got from alloc.
\* header has the two mutexes of FileHeader here: 0 when free, else the
\* thread that holds it.  A call is cut at its lock operations, and the
\* slow path also at double_file.
HeapCalls == 3

\* a thread outside a call; owned are the ids it holds
HeapIdle ==
  [pc |-> "idle", arg |-> NULL_PAGE, ret |-> NULL_PAGE, owned |-> {}, calls |-> 0]

\* fault: acquire returns although another thread holds the mutex
AcquireBarges(lock) == TRUE

\* futex::raw::Mutex::acquire returns once no thread holds the mutex
Acquire(lock) == lock = 0

\* header with the size and freelist_id of heap h
WithHeap(h) == [header EXCEPT !.size = h.size, !.freelist_id = h.freelist_id]

\* a step of thread t to th that leaves the heap alone
LockStep(t, th) ==
  /\ threads' = [threads EXCEPT ![t] = th]
  /\ UNCHANGED <<pages, fragments, allocated, last, panicked, pageLog, fresh, present, nfrees>>

\* a step of thread t to th that leaves heap h
HeapStep(t, th, h, why) ==
  /\ threads' = [threads EXCEPT ![t] = th]
  /\ header' = WithHeap(h)
  /\ pages' = h.pages
  /\ fragments' = TreeFragments(fragments, h.size)
  /\ panicked' = IF h.panic THEN why ELSE ""
  /\ UNCHANGED <<allocated, last, pageLog, fresh, present, nfrees>>

InitLocks ==
  /\ header = [size |-> 2, freelist_id |-> 1, alloc_lock |-> 0, resize_lock |-> 0]
  /\ pages = [i \in 1..1 |-> FreelistPage(<<>>, NULL_PAGE)]
  /\ fragments = <<Fragment(MapBasePage * PAGESZ, 0, 2)>>
  /\ allocated = {}
  /\ last = Op("init", 0, 0, None)
  /\ panicked = ""
  /\ pageLog = <<>>
  /\ fresh = -1
  /\ present = {}
  /\ nfrees = 0
  /\ threads = [t \in Threads |-> HeapIdle]

\* alloc is called
AllocCall(t) ==
  /\ panicked = "" /\ threads[t].pc = "idle" /\ threads[t].calls < HeapCalls
  /\ LockStep(t, [threads[t] EXCEPT !.pc = "alloc_lock.acquire", !.calls = @ + 1])
  /\ UNCHANGED header

\* alloc: self.header().alloc_lock.acquire()
AllocAcquire(t) ==
  /\ panicked = "" /\ threads[t].pc = "alloc_lock.acquire"
  /\ Acquire(header.alloc_lock)
  /\ header' = [header EXCEPT !.alloc_lock = t]
  /\ LockStep(t, [threads[t] EXCEPT !.pc = "freelist_id"])

\* alloc: the test of freelist_id; the fast path, or ret = size
AllocTest(t) ==
  /\ panicked = "" /\ threads[t].pc = "freelist_id"
  /\ IF header.freelist_id = NULL_PAGE
     THEN /\ header.size * 2 <= MaxSize
          /\ LockStep(t, [threads[t] EXCEPT !.pc = "resize_lock.acquire",
                                            !.ret = header.size])
          /\ UNCHANGED header
     ELSE HeapStep(t, [threads[t] EXCEPT !.pc = "alloc_lock.release",
                                         !.ret = AllocFast(H).ret],
                   AllocFast(H).heap, "alloc")

\* double_file: header.resize_lock.acquire()
DoubleAcquire(t) ==
  /\ panicked = "" /\ threads[t].pc = "resize_lock.acquire"
  /\ Acquire(header.resize_lock)
  /\ header' = [header EXCEPT !.resize_lock = t]
  /\ LockStep(t, [threads[t] EXCEPT !.pc = "size"])

\* double_file: header.size *= 2 and file.set_len
DoubleSize(t) ==
  /\ panicked = "" /\ threads[t].pc = "size"
  /\ HeapStep(t, [threads[t] EXCEPT !.pc = "resize_lock.release"], DoubleFile(H), "alloc")

\* double_file: header.resize_lock.release()
DoubleRelease(t) ==
  /\ panicked = "" /\ threads[t].pc = "resize_lock.release"
  /\ header' = [header EXCEPT !.resize_lock = 0]
  /\ LockStep(t, [threads[t] EXCEPT !.pc = "chain"])

\* alloc: the loop that chains the new pages
AllocChain(t) ==
  /\ panicked = "" /\ threads[t].pc = "chain"
  /\ LET c == ChainNewPages(pages, header.freelist_id, threads[t].ret + 1, header.size)
     IN HeapStep(t, [threads[t] EXCEPT !.pc = "alloc_lock.release"],
                 [H EXCEPT !.pages = c.pages, !.freelist_id = c.freelist_id], "alloc")

\* alloc: self.header().alloc_lock.release() and the return of ret
AllocRelease(t) ==
  /\ panicked = "" /\ threads[t].pc = "alloc_lock.release"
  /\ header' = [header EXCEPT !.alloc_lock = 0]
  /\ threads' = [threads EXCEPT ![t] = [@ EXCEPT !.pc = "idle", !.owned = @ \cup {threads[t].ret}]]
  /\ allocated' = allocated \cup {threads[t].ret}
  /\ last' = Op("alloc", t, 0, Some(threads[t].ret))
  /\ UNCHANGED <<pages, fragments, panicked, pageLog, fresh, present, nfrees>>

\* free(id) is called with an id the thread holds: the two assertions
FreeCall(t) ==
  /\ panicked = "" /\ threads[t].pc = "idle" /\ threads[t].calls < HeapCalls
  /\ \E id \in threads[t].owned :
       /\ threads' = [threads EXCEPT ![t] =
            [@ EXCEPT !.pc = IF id # NULL_PAGE /\ id < header.size
                             THEN "free: alloc_lock.acquire" ELSE "panicked",
                      !.arg = id, !.owned = @ \ {id}, !.calls = @ + 1]]
       /\ panicked' = IF id # NULL_PAGE /\ id < header.size THEN "" ELSE "free"
       /\ allocated' = allocated \ {id}
  /\ UNCHANGED <<header, pages, fragments, last, pageLog, fresh, present, nfrees>>

\* free: header.alloc_lock.acquire()
FreeAcquire(t) ==
  /\ panicked = "" /\ threads[t].pc = "free: alloc_lock.acquire"
  /\ Acquire(header.alloc_lock)
  /\ header' = [header EXCEPT !.alloc_lock = t]
  /\ LockStep(t, [threads[t] EXCEPT !.pc = "free"])

\* free: the id is appended to the head page or linked in at the front
FreeLinked(t) ==
  /\ panicked = "" /\ threads[t].pc = "free"
  /\ \E cleared \in BOOLEAN :
       HeapStep(t, [threads[t] EXCEPT !.pc = "free: alloc_lock.release"],
                Free(H, threads[t].arg, cleared), "free")

\* free: header.alloc_lock.release() and the return
FreeRelease(t) ==
  /\ panicked = "" /\ threads[t].pc = "free: alloc_lock.release"
  /\ header' = [header EXCEPT !.alloc_lock = 0]
  /\ threads' = [threads EXCEPT ![t] = [@ EXCEPT !.pc = "idle"]]
  /\ last' = Op("free", t, 0, None)
  /\ nfrees' = nfrees + 1
  /\ UNCHANGED <<pages, fragments, allocated, panicked, pageLog, fresh, present>>

NextLocks ==
  \/ \E t \in Threads : AllocCall(t)
  \/ \E t \in Threads : AllocAcquire(t)
  \/ \E t \in Threads : AllocTest(t)
  \/ \E t \in Threads : DoubleAcquire(t)
  \/ \E t \in Threads : DoubleSize(t)
  \/ \E t \in Threads : DoubleRelease(t)
  \/ \E t \in Threads : AllocChain(t)
  \/ \E t \in Threads : AllocRelease(t)
  \/ \E t \in Threads : FreeCall(t)
  \/ \E t \in Threads : FreeAcquire(t)
  \/ \E t \in Threads : FreeLinked(t)
  \/ \E t \in Threads : FreeRelease(t)

SpecLocks == InitLocks /\ [][NextLocks]_vars

\* thread t takes a step
Stepping(t) == threads'[t] # threads[t]

\* the steps of alloc and free that read or write freelist_id or a page of
\* the free list
TouchesFreeList(t) == threads[t].pc \in {"freelist_id", "chain", "free"}

\* C37: under every interleaving of alloc and free calls of the threads,
\* freelist_id and the pages of the free list are read and written only by
\* the thread that holds alloc_lock, header.size changes only in a step of
\* the thread that holds resize_lock, resize_lock is taken only by the
\* holder of alloc_lock and alloc_lock never by the holder of resize_lock,
\* and alloc returns an id that is in the file, is not the header page and
\* is held by no thread (it was never returned, or was freed since).
C37_ConcurrentAllocFree ==
  [][/\ \A t \in Threads : Stepping(t) /\ TouchesFreeList(t) => header.alloc_lock = t
     /\ (\/ header'.freelist_id # header.freelist_id
         \/ \E id \in DOMAIN pages : pages'[id] # pages[id])
          => \E t \in Threads : Stepping(t) /\ header.alloc_lock = t /\ header'.alloc_lock = t
     /\ header'.size # header.size
          => \E t \in Threads : Stepping(t) /\ header.resize_lock = t /\ header'.resize_lock = t
     /\ \A t \in Threads :
          /\ header'.resize_lock = t /\ header.resize_lock # t => header.alloc_lock = t
          /\ header'.alloc_lock = t /\ header.alloc_lock # t => header.resize_lock # t
          /\ header'.alloc_lock # t /\ header.alloc_lock = t => header'.alloc_lock = 0
          /\ header'.resize_lock # t /\ header.resize_lock = t => header'.resize_lock = 0
     /\ \A t \in Threads :
          Stepping(t) /\ threads[t].pc = "alloc_lock.release" =>
            /\ threads[t].ret \notin allocated
            /\ threads[t].ret # NULL_PAGE /\ threads[t].ret < header.size
            /\ \A u \in Threads : threads[t].ret \notin threads[u].owned
     /\ panicked' = ""]_vars

\* a thread is in double_file with both locks while another waits for
\* alloc_lock, after pages were freed and the free list ran empty again
C37_Witness ==
  \E t, u \in Threads :
    /\ t # u
    /\ threads[t].pc = "size"
    /\ header.alloc_lock = t /\ header.resize_lock = t
    /\ threads[u].pc \in {"alloc_lock.acquire", "free: alloc_lock.acquire"}
    /\ nfrees >= 1
    /\ allocated # {}

(* ------------------------ concurrent calls of page --------------------- *)

\* SpecRace runs the threads of Threads on one MappedHeap; each makes up to
\* PageRounds calls of page with an id in [1, header.size), while the file
\* is doubled by a caller of alloc.  fragments is guarded by its RwLock, so
\* a call is three steps: the search under the read lock, the extension
\* under the write lock, and the second read.
PageRounds == 2

\* a thread outside a call
PageIdle == [pc |-> "idle", id |-> NULL_PAGE, index |-> 0, calls |-> 0]

InitRace ==
  /\ header = [size |-> 2, freelist_id |-> 1]
  /\ pages = [i \in 1..1 |-> FreelistPage(<<>>, NULL_PAGE)]
  /\ fragments = <<Fragment(MapBasePage * PAGESZ, 0, 2)>>
  /\ allocated = {}
  /\ last = Op("init", 0, 0, None)
  /\ panicked = ""
  /\ pageLog = <<>>
  /\ fresh = -1
  /\ present = {}
  /\ nfrees = 0
  /\ threads = [t \in Threads |-> PageIdle]

\* double_file, called by alloc when the free list is empty
FileDoubled ==
  /\ panicked = ""
  /\ header.size * 2 <= MaxSize
  /\ header' = Header(DoubleFile(H))
  /\ pages' = DoubleFile(H).pages
  /\ last' = Op("double_file", 0, 0, None)
  /\ UNCHANGED <<fragments, allocated, panicked, pageLog, fresh, present, nfrees, threads>>

\* page(id): the search under fragments.read(); the pointer when the
\* fragment covers id
PageSearch(t) ==
  /\ panicked = "" /\ threads[t].pc = "idle" /\ threads[t].calls < PageRounds
  /\ \E id \in 1..(header.size - 1) :
       LET index == FragIndex(fragments, id)
           fragment == At(fragments, index)
       IN IF id - fragment.offset >= fragment.size
          THEN /\ threads' = [threads EXCEPT ![t] =
                    [pc |-> "fragments.write", id |-> id, index |-> index,
                     calls |-> threads[t].calls + 1]]
               /\ UNCHANGED <<last, pageLog>>
          ELSE /\ threads' = [threads EXCEPT ![t] =
                    [pc |-> "idle", id |-> id, index |-> index,
                     calls |-> threads[t].calls + 1]]
               /\ last' = Op("page", id, t, Some(PageAddr(fragment, id)))
               /\ pageLog' = <<[id |-> id, res |-> Some(PageAddr(fragment, id)), grew |-> "no"]>>
  /\ UNCHANGED <<header, pages, fragments, allocated, panicked, fresh, present, nfrees>>

\* page(id): the section under fragments.write(); the check is repeated
\* with the index found under the read lock
PageExtend(t) ==
  /\ panicked = "" /\ threads[t].pc = "fragments.write"
  /\ \E inplace \in BOOLEAN :
       LET id == threads[t].id
           index == threads[t].index
           m == At(fragments, index)
           required == header.size - MapSize(fragments)
           lastf == fragments[Len(fragments)]
           addr == IF inplace THEN lastf.addr + lastf.size * PAGESZ
                   ELSE ElsewhereAddr(fragments)
           g == Grow(lastf, required, addr)
       IN IF id - m.offset >= m.size
          THEN IF required > 0
               THEN /\ fragments' = IF g.new = None
                                    THEN [fragments EXCEPT ![Len(fragments)] = g.self]
                                    ELSE Append(fragments, g.new[1])
                    /\ threads' = [threads EXCEPT ![t] =
                         [@ EXCEPT !.pc = "fragments.read",
                                   !.index = IF g.new = None THEN index ELSE index + 1]]
                    /\ pageLog' = <<[id |-> id, res |-> None,
                                     grew |-> IF g.new = None THEN "inplace" ELSE "append"]>>
                    /\ UNCHANGED panicked
               ELSE /\ panicked' = "page"
                    /\ threads' = [threads EXCEPT ![t] = [@ EXCEPT !.pc = "panicked"]]
                    /\ UNCHANGED <<fragments, pageLog>>
          ELSE /\ threads' = [threads EXCEPT ![t] =
                    [@ EXCEPT !.pc = "fragments.read", !.index = index]]
               /\ UNCHANGED <<fragments, panicked, pageLog>>
  /\ UNCHANGED <<header, pages, allocated, last, fresh, present, nfrees>>

\* page(id): fragments[index] under the second fragments.read(), the
\* assertion and the pointer
PageReturn(t) ==
  /\ panicked = "" /\ threads[t].pc = "fragments.read"
  /\ LET id == threads[t].id
         index == threads[t].index
     IN IF index < Len(fragments)
           /\ id - At(fragments, index).offset < At(fragments, index).size
        THEN /\ threads' = [threads EXCEPT ![t] = [@ EXCEPT !.pc = "idle"]]
             /\ last' = Op("page", id, t, Some(PageAddr(At(fragments, index), id)))
             /\ UNCHANGED panicked
        ELSE /\ threads' = [threads EXCEPT ![t] = [@ EXCEPT !.pc = "panicked"]]
             /\ panicked' = "page"
             /\ UNCHANGED last
  /\ UNCHANGED <<header, pages, fragments, allocated, pageLog, fresh, present, nfrees>>

NextRace ==
  \/ FileDoubled
  \/ \E t \in Threads : PageSearch(t)
  \/ \E t \in Threads : PageExtend(t)
  \/ \E t \in Threads : PageReturn(t)

SpecRace == InitRace /\ [][NextRace]_vars

\* a call of page returns in this step
PageReturns == last' # last /\ last'.op = "page"

\* C38: when several threads call page for ids in [1, header.size) that the
\* mapping does not cover yet, no call panics and every call returns the
\* address of its page in the fragment that maps it, whether the kernel
\* extends the mapping in place or at another address.
C38_ConcurrentGrowth ==
  [][/\ panicked' = ""
     /\ PageReturns =>
          /\ last'.ret # None
          /\ \E i \in 1..Len(fragments') :
               /\ fragments'[i].offset <= last'.arg
               /\ last'.arg < fragments'[i].offset + fragments'[i].size
               /\ last'.ret[1] = PageAddr(fragments'[i], last'.arg)]_vars

(* --------------------- locks at the return of a call ------------------- *)

\* a call of alloc, try_insert or free on the mapping comes back in this step
MappingCallReturns == panicked' = "" /\ last'.op \in {"alloc", "try_insert", "free"}

\* C39: whenever alloc, try_alloc or free returns, try_alloc returning None
\* because the mapping could not be grown in place included, the caller no
\* longer holds alloc_lock, so that a later alloc, try_alloc or free is not
\* blocked by a call that is over.  Checked on the calls of the
\* specification and, in every state, on each of the three calls of
\* ExtensibleMapping made next.
C39_LockRelease ==
  [][/\ MappingCallReturns => ~header'.alloc_lock
     /\ ~header.alloc_lock /\ panicked = "" =>
          /\ \A inplace \in BOOLEAN :
               /\ TryAlloc(M, inplace).panic = "" => ~TryAlloc(M, inplace).mapping.alloc_lock
               /\ MappingAlloc(M, inplace).panic = "" => ~MappingAlloc(M, inplace).mapping.alloc_lock
          /\ \A id \in allocated, cleared \in BOOLEAN :
               MappingFree(M, id, cleared).panic = "" => ~MappingFree(M, id, cleared).mapping.alloc_lock]_vars

====
